---- MODULE Spec2Model ----
(***************************************************************************)
(* Live-watch heartbeat tracking of LunaTV.                                *)
(*                                                                         *)
(*   POST /api/live/heartbeat      src/src/app/api/live/heartbeat/route.ts *)
(*   POST /api/live/heartbeat/end  src/unnamed/part_000                    *)
(*   GET  /api/admin/live-stats    src/unnamed/part_001                    *)
(*                                                                         *)
(* Every request handler is a process.  Each `await db.*` of a handler is  *)
(* one atomic step on the key-value store, so that two handlers running    *)
(* at once interleave exactly at the awaits, as they do on the Node event  *)
(* loop.  Timestamps are in seconds (Date.now() / 1000).                   *)
(***************************************************************************)
EXTENDS Integers, Sequences, FiniteSets, TLC

\* ------------------------------------------------------------- constants
HEARTBEAT_INTERVAL == 30
WATCH_STATE_TTL == 60
MAX_SESSION_DURATION == 8 * 60 * 60
MIN_SESSION_DURATION == 30
SESSION_LIST_CAP == 100
DAILY_STATS_TTL == 7 * 24 * 60 * 60
\* toISOString().split('T')[0] is the UTC calendar day of the instant.
SECONDS_PER_DAY == 86400
STATS_CACHE_TTL == 5 * 60
\* for (let i = 6; i >= 0; i--): the days of the trend.
TREND_DAYS == 7
FAVORITE_CHANNELS == 5
HOT_CHANNELS == 10
RECENT_SESSIONS == 10

\* ---------------------------------------------------------------- bounds
\* Requests a behaviour may start.
MaxRequests == 2
\* Clock advances (of one heartbeat interval each) a behaviour may take.
MaxTicks == 1
\* Store operations that may fail in a behaviour of FailSpec.
MaxFailures == 1
\* Reports a behaviour of ReportSpec may ask for.
MaxReports == 1
\* Clock advances (of half a heartbeat interval each) a behaviour of
\* ExpirySpec may take.
MaxPauses == 5

Users == {"alice", "bob"}
\* config.UserConfig.Users, in the order of the configuration.
AllUsers == << "alice", "bob" >>
\* (user, sessionId) pairs that send requests.
Keys == {<<"alice", "t1">>, <<"alice", "t2">>, <<"bob", "t1">>}
ChannelIds == {"c1", "c2"}
\* Channel identities a heartbeat may carry (channelGroup, channelLogo and
\* sourceName are copied along exactly like channelName and are left out).
Identities ==
    { [channelId |-> "c1", channelName |-> "News", sourceKey |-> "s1"],
      [channelId |-> "c1", channelName |-> "News", sourceKey |-> "s2"],
      [channelId |-> "c2", channelName |-> "Sports", sourceKey |-> "s1"] }
\* Request bodies that lack a required field (a missing field and an empty
\* one are both falsy).
BadHeartbeats ==
    { [key |-> << "alice", "" >>,
       id |-> [channelId |-> "c2", channelName |-> "Sports", sourceKey |-> "s1"]],
      [key |-> << "alice", "t1" >>,
       id |-> [channelId |-> "", channelName |-> "Sports", sourceKey |-> "s1"]],
      [key |-> << "alice", "t1" >>,
       id |-> [channelId |-> "c2", channelName |-> "", sourceKey |-> "s1"]],
      [key |-> << "alice", "t1" >>,
       id |-> [channelId |-> "c2", channelName |-> "Sports", sourceKey |-> ""]] }
BadEnds == { [key |-> << "bob", "" >>] }
HeartbeatRequests == [key : Keys, id : Identities] \cup BadHeartbeats
EndRequests == [key : Keys] \cup BadEnds
\* Handler slots; a request takes the first free one.
Procs == {1, 2}

\* The clock starts one heartbeat interval before a UTC midnight.
StartTime == 2 * SECONDS_PER_DAY - HEARTBEAT_INTERVAL
EndOfTime == StartTime + MaxTicks * HEARTBEAT_INTERVAL
\* The grain of the clock where the time between two heartbeats matters.
PauseLength == HEARTBEAT_INTERVAL \div 2
EndOfPauses == StartTime + MaxPauses * PauseLength

\* An optional value (null | x) is a sequence of length <= 1.
None == << >>
Some(x) == << x >>

DayOf(t) == t \div SECONDS_PER_DAY
\* The days a settlement may write, and the days before them a report reads.
Days == DayOf(StartTime) - (TREND_DAYS - 1) .. DayOf(EndOfTime)

VARIABLES
    now,          \* the wall clock
    watch,        \* live:watching:{user}:{sessionId} -> (value, expiry)
    sessions,     \* live:sessions:{user}
    stats,        \* live:stats:{user}
    daily,        \* live:daily:{day} -> (value, expiry)
    channel,      \* live:channel:{channelId}
    pc,           \* where each handler stands
    req,          \* the request each handler serves
    loc,          \* each handler's local variables
    reqLeft,      \* requests that may still start
    failLeft,     \* store failures that may still happen
    maxInFlight,  \* handlers that may run at once
    nextGen,      \* ghost: the number of the next WatchState created
    run,          \* ghost: per key, the heartbeats since the state was created
    pre,          \* ghost: per handler, the aggregates when it started
    settled,      \* ghost: the settlements that applied all four updates
    cache,        \* live:global-stats -> (value, expiry)
    rpc,          \* where the report handler stands
    rep,          \* the report handler's local variables
    reportsLeft   \* reports that may still be asked for

vars == << now, watch, sessions, stats, daily, channel, pc, req, loc,
           reqLeft, failLeft, maxInFlight, nextGen, run, pre, settled,
           cache, rpc, rep, reportsLeft >>

reporter == << cache, rpc, rep, reportsLeft >>

store == << watch, sessions, stats, daily, channel >>
aggregates == << sessions, stats, daily, channel >>


\* ------------------------------------------------------ the counter store
\* db.getCache / db.setCache / db.deleteCache of @/lib/db: single-key get,
\* set with an optional time-to-live in seconds, delete.  A key whose
\* time-to-live has run out reads as absent.
CacheEntry(value, ttl) == Some([val |-> value, exp |-> now + ttl])

CacheGet(entry) ==
    IF entry # None /\ now < entry[1].exp THEN Some(entry[1].val) ELSE None

\* Mutant: a WatchState is read for as long as nothing overwrites it.
WatchGetStale(k) == IF watch[k] = None THEN None ELSE Some(watch[k][1].val)

WatchGet(k) == CacheGet(watch[k])
DailyGet(d) == CacheGet(daily[d])

\* ------------------------------------------------------- settleWatchSession
\* Mutant: the duration taken from the timestamps, not the heartbeat count.
DurationByClock(state) == state.lastHeartbeat - state.startTime

Duration(state) == state.heartbeatCount * HEARTBEAT_INTERVAL

\* Mutant: a session of exactly the longest duration is discarded too.
DiscardedAtBound(duration) ==
    duration < MIN_SESSION_DURATION \/ duration >= MAX_SESSION_DURATION

Discarded(duration) ==
    duration < MIN_SESSION_DURATION \/ duration > MAX_SESSION_DURATION

\* gen is a ghost field: the number of the WatchState the session settles.
BuildSession(state, endTime) ==
    [ channelId      |-> state.channelId,
      channelName    |-> state.channelName,
      sourceKey      |-> state.sourceKey,
      startTime      |-> state.startTime,
      endTime        |-> endTime,
      duration       |-> Duration(state),
      heartbeatCount |-> state.heartbeatCount,
      gen            |-> state.gen ]

\* Mutant: the list is cut to its newest entries only when it is read.
PrependSessionUncut(existing, session) == << session >> \o existing

\* existingSessions.unshift(session); length capped at 100.
PrependSession(existing, session) ==
    LET all == << session >> \o existing
    IN  IF Len(all) > SESSION_LIST_CAP
        THEN SubSeq(all, 1, SESSION_LIST_CAP)
        ELSE all

Includes(list, x) == \E i \in DOMAIN list : list[i] = x

\* Mutant: the username is pushed whether the list has it or not.
PushUserAlways(list, username) == Append(list, username)

\* if (!users.includes(username)) users.push(username)
PushUser(list, username) ==
    IF Includes(list, username) THEN list ELSE Append(list, username)

DefaultUserStats == [totalWatchTime |-> 0, totalSessions |-> 0, lastWatchTime |-> 0]

\* Mutant: the total is overwritten, not added to.
AddUserStatsOverwrites(read, duration, endTime) ==
    LET s == IF read = None THEN DefaultUserStats ELSE read[1]
    IN  [ totalWatchTime |-> duration,
          totalSessions  |-> s.totalSessions + 1,
          lastWatchTime  |-> endTime ]

AddUserStats(read, duration, endTime) ==
    LET s == IF read = None THEN DefaultUserStats ELSE read[1]
    IN  [ totalWatchTime |-> s.totalWatchTime + duration,
          totalSessions  |-> s.totalSessions + 1,
          lastWatchTime  |-> endTime ]

DefaultDailyStats == [watchTime |-> 0, sessions |-> 0, users |-> << >>]

\* Mutant: a day counts one session for each of its users.
AddDailyStatsPerUser(read, duration, username) ==
    LET s == IF read = None THEN DefaultDailyStats ELSE read[1]
    IN  [ watchTime |-> s.watchTime + duration,
          sessions  |-> IF Includes(s.users, username) THEN s.sessions ELSE s.sessions + 1,
          users     |-> PushUser(s.users, username) ]

AddDailyStats(read, duration, username) ==
    LET s == IF read = None THEN DefaultDailyStats ELSE read[1]
    IN  [ watchTime |-> s.watchTime + duration,
          sessions  |-> s.sessions + 1,
          users     |-> PushUser(s.users, username) ]

DefaultChannelStats(state) ==
    [ channelId      |-> state.channelId,
      channelName    |-> state.channelName,
      totalWatchTime |-> 0,
      totalSessions  |-> 0,
      users          |-> << >> ]

\* Mutant: a channel seen before gets the watch time but not the session.
AddChannelStatsUncounted(read, state, duration, username) ==
    LET s == IF read = None THEN DefaultChannelStats(state) ELSE read[1]
    IN  [ s EXCEPT !.totalWatchTime = @ + duration,
                   !.totalSessions = IF read = None THEN 1 ELSE @,
                   !.users = PushUser(@, username) ]

AddChannelStats(read, state, duration, username) ==
    LET s == IF read = None THEN DefaultChannelStats(state) ELSE read[1]
    IN  [ s EXCEPT !.totalWatchTime = @ + duration,
                   !.totalSessions = @ + 1,
                   !.users = PushUser(@, username) ]

\* const today = new Date().toISOString().split('T')[0]: the day of the
\* clock when the daily update runs.
Today == DayOf(now)

\* ------------------------------------------------------------- POST (heartbeat)
\* if (lastState.channelId !== channelId): a channel switch.
ChannelSwitched(lastState, id) == lastState.channelId # id.channelId

NewState(id, t, g) ==
    [ channelId      |-> id.channelId,
      channelName    |-> id.channelName,
      sourceKey      |-> id.sourceKey,
      startTime      |-> t,
      lastHeartbeat  |-> t,
      heartbeatCount |-> 1,
      gen            |-> g ]

\* Mutant: the heartbeat is stamped but not counted.
UpdatedStateUncounted(lastState, t) == [lastState EXCEPT !.lastHeartbeat = t]

UpdatedState(lastState, t) ==
    [ lastState EXCEPT !.lastHeartbeat = t,
                       !.heartbeatCount = lastState.heartbeatCount + 1 ]

\* ------------------------------------------------------------ handlers
NoIdentity == [channelId |-> "", channelName |-> "", sourceKey |-> ""]
NoRequest == [kind |-> "none", key |-> << "", "" >>, id |-> NoIdentity]

\* A handler's locals: now (Date.now()), last (what the WatchState read
\* returned), session (the record being settled), buf (what the last
\* getCache of the settlement returned), today (the day key of the daily
\* update), settle (how the settlement ended), result (the response);
\* ghosts: failedStep (the update of the settlement, 1 to 4, in which a
\* store operation failed), readAt (the clock when the store served the
\* read of the WatchState).
NoLocals ==
    [ now |-> 0, last |-> None, session |-> None, buf |-> None, today |-> 0,
      settle |-> "none", result |-> "none", failedStep |-> 0, readAt |-> 0 ]

StoreOps ==
    { "hb_get", "hb_set", "end_get", "end_del",
      "s_get_sessions", "s_set_sessions", "s_get_stats", "s_set_stats",
      "s_get_daily", "s_set_daily", "s_get_channel", "s_set_channel" }
SettleOps == StoreOps \ { "hb_get", "hb_set", "end_get", "end_del" }

\* The update of the settlement a step belongs to: session list,
\* UserStats, DailyStats (with the clock read that names its key),
\* ChannelStats.
StepOf(op) ==
    CASE op \in { "s_get_sessions", "s_set_sessions" } -> 1
      [] op \in { "s_get_stats", "s_set_stats" } -> 2
      [] op \in { "s_today", "s_get_daily", "s_set_daily" } -> 3
      [] op \in { "s_get_channel", "s_set_channel" } -> 4
      [] OTHER -> 0

InFlight == { p \in Procs : pc[p] # "idle" }
User(p) == req[p].key[1]

\* Where a handler continues when settleWatchSession returns.
AfterSettle(p) == IF req[p].kind = "hb" THEN "hb_set" ELSE "end_del"

\* Mutant: a heartbeat is accepted without a source key.
InvalidButSource(kind, k, id) ==
    IF kind = "hb"
    THEN k[2] = "" \/ id.channelId = "" \/ id.channelName = ""
    ELSE k[2] = ""

\* if (!sessionId || !channelId || !channelName || !sourceKey), and
\* if (!sessionId) of end-watch.
Invalid(kind, k, id) ==
    IF kind = "hb"
    THEN k[2] = "" \/ id.channelId = "" \/ id.channelName = "" \/ id.sourceKey = ""
    ELSE k[2] = ""

Snapshot ==
    [ watch |-> watch, sessions |-> sessions, stats |-> stats,
      daily |-> daily, channel |-> channel ]

Begin(p, kind, k, id) ==
    /\ pc[p] = "idle"
    /\ \A q \in Procs : q < p => pc[q] # "idle"
    /\ reqLeft > 0
    /\ Cardinality(InFlight) < maxInFlight
    /\ ~Invalid(kind, k, id)
    /\ req' = [req EXCEPT ![p] = [kind |-> kind, key |-> k, id |-> id]]
    /\ loc' = [loc EXCEPT ![p] = [NoLocals EXCEPT !.now = now]]
    /\ pre' = [pre EXCEPT ![p] = Some(Snapshot)]
    /\ pc' = [pc EXCEPT ![p] = IF kind = "hb" THEN "hb_get" ELSE "end_get"]
    /\ reqLeft' = reqLeft - 1
    /\ UNCHANGED << reporter, now, store, failLeft, maxInFlight, nextGen, run, settled >>

\* POST /api/live/heartbeat up to the read of the WatchState.
BeginHeartbeat(p, k, id) == Begin(p, "hb", k, id)

\* POST /api/live/heartbeat/end up to the read of the WatchState.
BeginEndWatch(p, k) == Begin(p, "end", k, NoIdentity)

\* POST of either route up to the validation of a body that lacks a field.
Reject(p, kind, k, id) ==
    /\ pc[p] = "idle"
    /\ \A q \in Procs : q < p => pc[q] # "idle"
    /\ reqLeft > 0
    /\ Cardinality(InFlight) < maxInFlight
    /\ Invalid(kind, k, id)
    /\ req' = [req EXCEPT ![p] = [kind |-> kind, key |-> k, id |-> id]]
    /\ loc' = [loc EXCEPT ![p] = [NoLocals EXCEPT !.result = "invalid"]]
    /\ pre' = [pre EXCEPT ![p] = Some(Snapshot)]
    /\ pc' = [pc EXCEPT ![p] = "rejected"]
    /\ reqLeft' = reqLeft - 1
    /\ UNCHANGED << reporter, now, store, failLeft, maxInFlight, nextGen, run, settled >>

\* return NextResponse.json({ error }, { status: 400 })
Respond400(p) ==
    /\ pc[p] = "rejected"
    /\ pc' = [pc EXCEPT ![p] = "idle"]
    /\ req' = [req EXCEPT ![p] = NoRequest]
    /\ loc' = [loc EXCEPT ![p] = NoLocals]
    /\ pre' = [pre EXCEPT ![p] = None]
    /\ UNCHANGED << reporter, now, store, reqLeft, failLeft, maxInFlight, nextGen, run, settled >>

\* Mutant: a request whose settlement is discarded is answered at once.
EnterSettleDropEnds(p, state) ==
    IF Discarded(Duration(state))
    THEN /\ loc' = [loc EXCEPT ![p].last = Some(state), ![p].readAt = now,
                               ![p].settle = "dropped",
                               ![p].result = "ok"]
         /\ pc' = [pc EXCEPT ![p] = "return"]
    ELSE /\ loc' = [loc EXCEPT ![p].last = Some(state), ![p].readAt = now,
                               ![p].session = Some(BuildSession(state, loc[p].now))]
         /\ pc' = [pc EXCEPT ![p] = "s_get_sessions"]

\* settleWatchSession(username, state, endTime) up to its first await: the
\* duration filter and the session record.
EnterSettle(p, state) ==
    IF Discarded(Duration(state))
    THEN /\ loc' = [loc EXCEPT ![p].last = Some(state), ![p].readAt = now, ![p].settle = "dropped"]
         /\ pc' = [pc EXCEPT ![p] = AfterSettle(p)]
    ELSE /\ loc' = [loc EXCEPT ![p].last = Some(state), ![p].readAt = now,
                               ![p].session = Some(BuildSession(state, loc[p].now))]
         /\ pc' = [pc EXCEPT ![p] = "s_get_sessions"]

\* Mutant: the read waits while another handler works on the same key.
HbGetLocked(p) ==
    /\ pc[p] = "hb_get"
    /\ \A q \in Procs \ {p} : pc[q] = "idle" \/ req[q].key # req[p].key
    /\ LET last == WatchGet(req[p].key)
       IN  IF last # None /\ ChannelSwitched(last[1], req[p].id)
           THEN EnterSettle(p, last[1])
           ELSE /\ loc' = [loc EXCEPT ![p].last = last, ![p].readAt = now]
                /\ pc' = [pc EXCEPT ![p] = "hb_set"]
    /\ UNCHANGED << reporter, now, store, req, reqLeft, failLeft, maxInFlight, nextGen, run, pre, settled >>

\* const lastState = await db.getCache(watchKey), and the branch on it.
HbGet(p) ==
    /\ pc[p] = "hb_get"
    /\ LET last == WatchGet(req[p].key)
       IN  IF last # None /\ ChannelSwitched(last[1], req[p].id)
           THEN EnterSettle(p, last[1])
           ELSE /\ loc' = [loc EXCEPT ![p].last = last, ![p].readAt = now]
                /\ pc' = [pc EXCEPT ![p] = "hb_set"]
    /\ UNCHANGED << reporter, now, store, req, reqLeft, failLeft, maxInFlight, nextGen, run, pre, settled >>

\* The WatchState the heartbeat writes: a new one on a first heartbeat or a
\* channel switch, the old one with one more heartbeat otherwise.
NextWatchState(last, id, t, g) ==
    IF last = None \/ ChannelSwitched(last[1], id)
    THEN NewState(id, t, g)
    ELSE UpdatedState(last[1], t)

\* Mutant: a same-channel heartbeat updates the WatchState and leaves its
\* time-to-live running.
HbSetKeepsExpiry(p) ==
    /\ pc[p] = "hb_set"
    /\ LET next == NextWatchState(loc[p].last, req[p].id, loc[p].now, nextGen)
       IN  /\ watch' = [watch EXCEPT ![req[p].key] =
                           IF next.gen = nextGen \/ @ = None
                           THEN CacheEntry(next, WATCH_STATE_TTL)
                           ELSE Some([val |-> next, exp |-> @[1].exp])]
           /\ nextGen' = IF next.gen = nextGen THEN nextGen + 1 ELSE nextGen
    /\ loc' = [loc EXCEPT ![p].result = "ok"]
    /\ pc' = [pc EXCEPT ![p] = "return"]
    /\ UNCHANGED << reporter, now, aggregates, req, reqLeft, failLeft, maxInFlight, run, pre, settled >>

\* await db.setCache(watchKey, state, WATCH_STATE_TTL)
HbSet(p) ==
    /\ pc[p] = "hb_set"
    /\ LET next == NextWatchState(loc[p].last, req[p].id, loc[p].now, nextGen)
       IN  /\ watch' = [watch EXCEPT ![req[p].key] = CacheEntry(next, WATCH_STATE_TTL)]
           /\ nextGen' = IF next.gen = nextGen THEN nextGen + 1 ELSE nextGen
    /\ loc' = [loc EXCEPT ![p].result = "ok"]
    /\ pc' = [pc EXCEPT ![p] = "return"]
    /\ UNCHANGED << reporter, now, aggregates, req, reqLeft, failLeft, maxInFlight, run, pre, settled >>

\* Mutant: end_watch settles whatever was last written under the key.
EndGetStale(p) ==
    /\ pc[p] = "end_get"
    /\ LET state == WatchGetStale(req[p].key)
       IN  IF state # None
           THEN EnterSettle(p, state[1])
           ELSE /\ loc' = [loc EXCEPT ![p].result = "ok", ![p].readAt = now]
                /\ pc' = [pc EXCEPT ![p] = "return"]
    /\ UNCHANGED << reporter, now, store, req, reqLeft, failLeft, maxInFlight, nextGen, run, pre, settled >>

\* const state = await db.getCache(watchKey), and the branch on it.
EndGet(p) ==
    /\ pc[p] = "end_get"
    /\ LET state == WatchGet(req[p].key)
       IN  IF state # None
           THEN EnterSettle(p, state[1])
           ELSE /\ loc' = [loc EXCEPT ![p].result = "ok", ![p].readAt = now]
                /\ pc' = [pc EXCEPT ![p] = "return"]
    /\ UNCHANGED << reporter, now, store, req, reqLeft, failLeft, maxInFlight, nextGen, run, pre, settled >>

\* Mutant: end_watch settles and leaves the WatchState in the store.
EndDelKeeps(p) ==
    /\ pc[p] = "end_del"
    /\ loc' = [loc EXCEPT ![p].result = "ok"]
    /\ pc' = [pc EXCEPT ![p] = "return"]
    /\ UNCHANGED << reporter, now, store, req, reqLeft, failLeft, maxInFlight, nextGen, run, pre, settled >>

\* Mutant: the key of the WatchState names the user alone; end_watch
\* deletes the state of each of the user's tabs.
EndDelAllTabs(p) ==
    /\ pc[p] = "end_del"
    /\ watch' = [k \in Keys |-> IF k[1] = User(p) THEN None ELSE watch[k]]
    /\ loc' = [loc EXCEPT ![p].result = "ok"]
    /\ pc' = [pc EXCEPT ![p] = "return"]
    /\ UNCHANGED << reporter, now, aggregates, req, reqLeft, failLeft, maxInFlight, nextGen, run, pre, settled >>

\* await db.deleteCache(watchKey)
EndDel(p) ==
    /\ pc[p] = "end_del"
    /\ watch' = [watch EXCEPT ![req[p].key] = None]
    /\ loc' = [loc EXCEPT ![p].result = "ok"]
    /\ pc' = [pc EXCEPT ![p] = "return"]
    /\ UNCHANGED << reporter, now, aggregates, req, reqLeft, failLeft, maxInFlight, nextGen, run, pre, settled >>

\* ------------------------------------------ settleWatchSession, step by step
\* One await of the settlement: it leaves the handler's request alone and
\* moves it from one store operation to the next.
SettleStep(p, from, to) ==
    /\ pc[p] = from
    /\ pc' = [pc EXCEPT ![p] = to]
    /\ settled' = IF to = AfterSettle(p)
                  THEN Append(settled, [ user |-> User(p),
                                         gen |-> loc[p].session[1].gen,
                                         channelId |-> loc[p].session[1].channelId,
                                         day |-> loc[p].today,
                                         duration |-> loc[p].session[1].duration ])
                  ELSE settled
    /\ UNCHANGED << reporter, now, req, reqLeft, failLeft, maxInFlight, nextGen, run, pre >>

\* const existingSessions = await db.getCache(sessionsKey) || []
GetSessions(p) ==
    /\ SettleStep(p, "s_get_sessions", "s_set_sessions")
    /\ loc' = [loc EXCEPT ![p].buf = sessions[User(p)]]
    /\ UNCHANGED store

\* await db.setCache(sessionsKey, existingSessions)
SetSessions(p) ==
    /\ SettleStep(p, "s_set_sessions", "s_get_stats")
    /\ sessions' = [sessions EXCEPT
                      ![User(p)] = PrependSession(loc[p].buf, loc[p].session[1])]
    /\ UNCHANGED << loc, watch, stats, daily, channel >>

\* const stats = await db.getCache(statsKey) || {...}
GetStats(p) ==
    /\ SettleStep(p, "s_get_stats", "s_set_stats")
    /\ loc' = [loc EXCEPT ![p].buf = stats[User(p)]]
    /\ UNCHANGED store

\* await db.setCache(statsKey, stats): the store applies the write.
SetStats(p) ==
    /\ SettleStep(p, "s_set_stats", "s_today")
    /\ stats' = [stats EXCEPT
                   ![User(p)] = Some(AddUserStats(loc[p].buf,
                                                  loc[p].session[1].duration,
                                                  loc[p].session[1].endTime))]
    /\ UNCHANGED << loc, watch, sessions, daily, channel >>

\* The settlement resumes from that await:
\* const today = new Date().toISOString().split('T')[0], and dailyKey.
ReadToday(p) ==
    /\ SettleStep(p, "s_today", "s_get_daily")
    /\ loc' = [loc EXCEPT ![p].today = Today]
    /\ UNCHANGED store

\* const dailyStats = await db.getCache(dailyKey) || {...}
GetDaily(p) ==
    /\ SettleStep(p, "s_get_daily", "s_set_daily")
    /\ loc' = [loc EXCEPT ![p].buf = DailyGet(loc[p].today)]
    /\ UNCHANGED store

\* await db.setCache(dailyKey, dailyStats, 7 * 24 * 60 * 60)
SetDaily(p) ==
    /\ SettleStep(p, "s_set_daily", "s_get_channel")
    /\ daily' = [daily EXCEPT
                   ![loc[p].today] =
                       CacheEntry(AddDailyStats(loc[p].buf,
                                                loc[p].session[1].duration,
                                                User(p)),
                                  DAILY_STATS_TTL)]
    /\ UNCHANGED << loc, watch, sessions, stats, channel >>

\* const channelStats = await db.getCache(channelStatsKey) || {...}
GetChannel(p) ==
    /\ SettleStep(p, "s_get_channel", "s_set_channel")
    /\ loc' = [loc EXCEPT ![p].buf = channel[loc[p].last[1].channelId]]
    /\ UNCHANGED store

\* await db.setCache(channelStatsKey, channelStats); settleWatchSession returns.
SetChannel(p) ==
    /\ SettleStep(p, "s_set_channel", AfterSettle(p))
    /\ channel' = [channel EXCEPT
                     ![loc[p].last[1].channelId] =
                         Some(AddChannelStats(loc[p].buf, loc[p].last[1],
                                              loc[p].session[1].duration,
                                              User(p)))]
    /\ loc' = [loc EXCEPT ![p].settle = "applied"]
    /\ UNCHANGED << watch, sessions, stats, daily >>

\* Mutant: settleWatchSession has no catch; its failure ends the request.
FailPropagates(p) ==
    /\ pc[p] \in StoreOps
    /\ failLeft > 0
    /\ failLeft' = failLeft - 1
    /\ loc' = [loc EXCEPT ![p].result = "error",
                          ![p].settle = IF pc[p] \in SettleOps THEN "failed" ELSE @]
    /\ pc' = [pc EXCEPT ![p] = "return"]
    /\ UNCHANGED << reporter, now, store, req, reqLeft, maxInFlight, nextGen, run, pre, settled >>

\* Mutant: a write of the WatchState that fails has removed the key.
FailCorrupts(p) ==
    /\ pc[p] \in StoreOps
    /\ failLeft > 0
    /\ failLeft' = failLeft - 1
    /\ watch' = IF pc[p] = "hb_set" THEN [watch EXCEPT ![req[p].key] = None] ELSE watch
    /\ IF pc[p] \in SettleOps
       THEN /\ loc' = [loc EXCEPT ![p].settle = "failed"]
            /\ pc' = [pc EXCEPT ![p] = AfterSettle(p)]
       ELSE /\ loc' = [loc EXCEPT ![p].result = "error"]
            /\ pc' = [pc EXCEPT ![p] = "return"]
    /\ UNCHANGED << reporter, now, aggregates, req, reqLeft, maxInFlight, nextGen, run, pre, settled >>

\* Mutant: the store operation that follows the update a store operation belongs to.
AfterStep(p, op) ==
    CASE StepOf(op) = 1 -> "s_get_stats"
      [] StepOf(op) = 2 -> "s_today"
      [] StepOf(op) = 3 -> "s_get_channel"
      [] OTHER -> AfterSettle(p)

\* Mutant: each update of the settlement has a catch of its own; after a
\* failure the settlement goes on with the next update.
FailSkipsStep(p) ==
    /\ pc[p] \in StoreOps
    /\ failLeft > 0
    /\ failLeft' = failLeft - 1
    /\ IF pc[p] \in SettleOps
       THEN /\ loc' = [loc EXCEPT ![p].settle = "failed",
                                  ![p].failedStep = StepOf(pc[p])]
            /\ pc' = [pc EXCEPT ![p] = AfterStep(p, pc[p])]
       ELSE /\ loc' = [loc EXCEPT ![p].result = "error"]
            /\ pc' = [pc EXCEPT ![p] = "return"]
    /\ UNCHANGED << reporter, now, store, req, reqLeft, maxInFlight, nextGen, run, pre, settled >>

\* A store operation throws.  Inside settleWatchSession the catch logs it
\* and the settlement returns; in a handler the catch answers 500.
Fail(p) ==
    /\ pc[p] \in StoreOps
    /\ failLeft > 0
    /\ failLeft' = failLeft - 1
    /\ IF pc[p] \in SettleOps
       THEN /\ loc' = [loc EXCEPT ![p].settle = "failed",
                                  ![p].failedStep = StepOf(pc[p])]
            /\ pc' = [pc EXCEPT ![p] = AfterSettle(p)]
       ELSE /\ loc' = [loc EXCEPT ![p].result = "error"]
            /\ pc' = [pc EXCEPT ![p] = "return"]
    /\ UNCHANGED << reporter, now, store, req, reqLeft, maxInFlight, nextGen, run, pre, settled >>

\* ghost: the heartbeats of the key's WatchState as the requests, not the
\* store, count them.
RunAfter(p) ==
    LET k == req[p].key
        id == req[p].id
        t == loc[p].now
    IN  IF loc[p].result # "ok" THEN run[k]
        ELSE IF req[p].kind = "end" THEN None
        ELSE IF loc[p].last = None \/ run[k] = None
                  \/ run[k][1].channelId # id.channelId
        THEN Some([channelId |-> id.channelId, beats |-> 1,
                   firstAt |-> t, lastAt |-> t])
        ELSE Some([run[k][1] EXCEPT !.beats = @ + 1, !.lastAt = t])

\* return NextResponse.json(...)
Return(p) ==
    /\ pc[p] = "return"
    /\ run' = [run EXCEPT ![req[p].key] = RunAfter(p)]
    /\ pc' = [pc EXCEPT ![p] = "idle"]
    /\ req' = [req EXCEPT ![p] = NoRequest]
    /\ loc' = [loc EXCEPT ![p] = NoLocals]
    /\ pre' = [pre EXCEPT ![p] = None]
    /\ UNCHANGED << reporter, now, store, reqLeft, failLeft, maxInFlight, nextGen, settled >>

\* The clock advances, between requests and while a handler waits at an
\* await.  Handlers look at it in Date.now() when a request starts and in
\* new Date() of the daily update and of the trend, each a step of its own
\* taken when the handler resumes; the store looks at it when it applies
\* an operation, for time-to-live.
Tick ==
    /\ now < EndOfTime
    /\ now' = now + HEARTBEAT_INTERVAL
    /\ UNCHANGED << reporter, store, pc, req, loc, reqLeft, failLeft, maxInFlight,
                    nextGen, run, pre, settled >>

\* The clock advances by half a heartbeat interval, between requests and
\* while a handler waits at an await: heartbeats come early or late, and
\* the store takes its time.
Pause ==
    /\ now < EndOfPauses
    /\ now' = now + PauseLength
    /\ UNCHANGED << reporter, store, pc, req, loc, reqLeft, failLeft, maxInFlight,
                    nextGen, run, pre, settled >>

\* ------------------------------------------------- GET /api/admin/live-stats
handlers == << pc, req, loc, reqLeft, failLeft, maxInFlight, nextGen, run, pre, settled >>

Min(a, b) == IF a < b THEN a ELSE b

\* list.slice(0, n)
Take(list, n) == SubSeq(list, 1, Min(n, Len(list)))

\* list.sort((a, b) => key(b) - key(a)), keys[i] being the key of list[i]:
\* descending, and stable: entries of equal key keep their order.
SortDesc(list, keys) ==
    LET n == Len(list)
        Rank(i) == 1 + Cardinality({ j \in 1 .. n :
                          \/ keys[j] > keys[i]
                          \/ keys[j] = keys[i] /\ j < i })
    IN  [r \in 1 .. n |-> list[CHOOSE i \in 1 .. n : Rank(i) = r]]

WatchTimes(list) == [i \in DOMAIN list |-> list[i].watchTime]
TotalWatchTimes(list) == [i \in DOMAIN list |-> list[i].totalWatchTime]

\* A Map keeps its entries in the order of insertion; map.get(channelId) is
\* the position of the entry, 0 when there is none.
IndexOf(map, channelId) ==
    IF \E i \in DOMAIN map : map[i].channelId = channelId
    THEN CHOOSE i \in DOMAIN map : map[i].channelId = channelId
    ELSE 0

\* The sessions of a list that are of channel c, and the channels of a
\* list in the order in which the loop over the sessions meets them.
SessionsOn(list, c) ==
    LET On(s) == s.channelId = c
    IN  SelectSeq(list, On)

FirstOn(list, c) ==
    CHOOSE i \in DOMAIN list :
        list[i].channelId = c /\ \A j \in 1 .. i - 1 : list[j].channelId # c

ChannelsIn(list) == { list[i].channelId : i \in DOMAIN list }

InOrder(list, ids) ==
    LET Rank(c) == Cardinality({ d \in ids : FirstOn(list, d) <= FirstOn(list, c) })
    IN  [r \in 1 .. Cardinality(ids) |-> CHOOSE c \in ids : Rank(c) = r]

\* existing.watchTime += session.duration, over a list of sessions.
\* (added up by halves: a list of 100 sessions is 7 levels deep)
RECURSIVE SumBetween(_, _, _)
SumBetween(list, a, b) ==
    IF a > b THEN 0
    ELSE IF a = b THEN list[a].duration
    ELSE LET m == (a + b) \div 2
         IN  SumBetween(list, a, m) + SumBetween(list, m + 1, b)

SumUpTo(list, k) == SumBetween(list, 1, k)

SumOfDurations(list) == SumUpTo(list, Len(list))

\* channelWatchMap after the loop over the user's sessions: per channel,
\* in the order of insertion, the durations added up and the sessions
\* counted.
WatchMapOf(list) ==
    LET order == InOrder(list, ChannelsIn(list))
    IN  [r \in DOMAIN order |->
            LET mine == SessionsOn(list, order[r])
            IN  [ channelId   |-> order[r],
                  channelName |-> mine[1].channelName,
                  watchTime   |-> SumOfDurations(mine),
                  watchCount  |-> Len(mine) ]]

\* channelStatsMap after the loop over the user's sessions: the channels it
\* had are added to, the others are appended in the order of insertion.
ChannelMapOf(map, list, username) ==
    LET fresh == InOrder(list, { c \in ChannelsIn(list) : IndexOf(map, c) = 0 })
        Added(e) ==
            LET mine == SessionsOn(list, e.channelId)
            IN  IF mine = << >> THEN e
                ELSE [e EXCEPT !.totalWatchTime = @ + SumOfDurations(mine),
                               !.totalSessions = @ + Len(mine),
                               !.users = @ \cup {username}]
        New(c) ==
            LET mine == SessionsOn(list, c)
            IN  [ channelId      |-> c,
                  channelName    |-> mine[1].channelName,
                  totalWatchTime |-> SumOfDurations(mine),
                  totalSessions  |-> Len(mine),
                  users          |-> {username} ]
    IN  [i \in DOMAIN map |-> Added(map[i])] \o [r \in DOMAIN fresh |-> New(fresh[r])]

\* The UserLiveStats of a user from the reads of live:stats and live:sessions.
UserStat(username, read, list) ==
    LET s == IF read = None THEN DefaultUserStats ELSE read[1]
        map == WatchMapOf(list)
    IN  [ username         |-> username,
          totalWatchTime   |-> s.totalWatchTime,
          totalSessions    |-> s.totalSessions,
          lastWatchTime    |-> s.lastWatchTime,
          favoriteChannels |-> Take(SortDesc(map, WatchTimes(map)),
                                    FAVORITE_CHANNELS),
          recentSessions   |-> Take(list, RECENT_SESSIONS) ]

HotChannel(c) ==
    [ channelId      |-> c.channelId,
      channelName    |-> c.channelName,
      totalWatchTime |-> c.totalWatchTime,
      totalUsers     |-> Cardinality(c.users),
      totalSessions  |-> c.totalSessions ]

HotChannels(map) ==
    Take(SortDesc([i \in DOMAIN map |-> HotChannel(map[i])], TotalWatchTimes(map)),
         HOT_CHANNELS)

\* One day of the trend from the read of live:daily:{day}.
TrendEntry(day, read) ==
    LET s == IF read = None THEN DefaultDailyStats ELSE read[1]
    IN  [ date |-> day, watchTime |-> s.watchTime, sessions |-> s.sessions,
          users |-> Len(s.users) ]

\* The report handler's locals: force (refresh=true), i (the user, then the
\* day, the loop is at), stats (the read of live:stats of the user at
\* hand), userStats, totalWatchTime, totalSessions and channels
\* (channelStatsMap) as collected so far, trend (dailyTrend so far), at
\* (new Date() of the trend), result (the report answered), hit (the
\* answer is the cached report), error (the store operation whose failure
\* is answered with 500); ghost: pre (the aggregates when it started),
\* failed (the users whose reads have failed), readAt (the clock when the
\* store served the read of live:global-stats).
NoReport ==
    [ force |-> FALSE, i |-> 0, stats |-> None, userStats |-> << >>,
      totalWatchTime |-> 0, totalSessions |-> 0, channels |-> << >>,
      trend |-> << >>, at |-> 0, result |-> None, hit |-> FALSE,
      error |-> "none", pre |-> None, failed |-> {}, readAt |-> 0 ]

\* const result: GlobalLiveStats = {...}
BuildResult(r, todayStats) ==
    [ totalUsers       |-> Len(r.userStats),
      totalWatchTime   |-> r.totalWatchTime,
      totalSessions    |-> r.totalSessions,
      todayActiveUsers |-> IF todayStats = None THEN 0 ELSE Len(todayStats[1].users),
      hotChannels      |-> HotChannels(r.channels),
      dailyTrend       |-> r.trend,
      userStats        |-> SortDesc(r.userStats, TotalWatchTimes(r.userStats)) ]

\* Mutant: the cache is consulted whatever the refresh parameter says.
BeginReportCached(force) ==
    /\ rpc = "idle"
    /\ reportsLeft > 0
    /\ reportsLeft' = reportsLeft - 1
    /\ rep' = [NoReport EXCEPT !.force = force, !.i = 1, !.pre = Some(aggregates)]
    /\ rpc' = "cache_get"
    /\ UNCHANGED << cache, now, store, handlers >>

\* GET up to its first await (the caller is an administrator).
BeginReport(force) ==
    /\ rpc = "idle"
    /\ reportsLeft > 0
    /\ reportsLeft' = reportsLeft - 1
    /\ rep' = [NoReport EXCEPT !.force = force, !.i = 1, !.pre = Some(aggregates)]
    /\ rpc' = IF force THEN "user_stats" ELSE "cache_get"
    /\ UNCHANGED << cache, now, store, handlers >>

\* const cachedStats = await db.getCache(cacheKey)
RepGetCache ==
    /\ rpc = "cache_get"
    /\ LET cachedStats == CacheGet(cache)
       IN  IF cachedStats # None
           THEN /\ rep' = [rep EXCEPT !.result = cachedStats, !.hit = TRUE,
                                      !.readAt = now]
                /\ rpc' = "respond"
           ELSE /\ rep' = [rep EXCEPT !.readAt = now]
                /\ rpc' = "user_stats"
    /\ UNCHANGED << cache, reportsLeft, now, store, handlers >>

\* Mutant: a user without UserStats gets the default record stored.
RepGetStatsCreates ==
    /\ rpc = "user_stats"
    /\ rep' = [rep EXCEPT !.stats = stats[AllUsers[rep.i]]]
    /\ rpc' = "user_sessions"
    /\ stats' = [stats EXCEPT ![AllUsers[rep.i]] =
                   IF @ = None THEN Some(DefaultUserStats) ELSE @]
    /\ UNCHANGED << cache, reportsLeft, now, watch, sessions, daily, channel, handlers >>

\* const stats = await db.getCache(statsKey)
RepGetStats ==
    /\ rpc = "user_stats"
    /\ rep' = [rep EXCEPT !.stats = stats[AllUsers[rep.i]]]
    /\ rpc' = "user_sessions"
    /\ UNCHANGED << cache, reportsLeft, now, store, handlers >>

\* const sessions = await db.getCache(sessionsKey) || [], and the rest of
\* the loop body.
RepGetSessions ==
    /\ rpc = "user_sessions"
    /\ LET user == AllUsers[rep.i]
           list == sessions[user]
           stat == UserStat(user, rep.stats, list)
           next == IF rep.stats = None /\ list = << >>
                   THEN rep
                   ELSE [rep EXCEPT
                           !.userStats = Append(@, stat),
                           !.totalWatchTime = @ + stat.totalWatchTime,
                           !.totalSessions = @ + stat.totalSessions,
                           !.channels = ChannelMapOf(@, list, user)]
       IN  IF rep.i < Len(AllUsers)
           THEN /\ rep' = [next EXCEPT !.i = @ + 1, !.stats = None]
                /\ rpc' = "user_stats"
           ELSE /\ rep' = [next EXCEPT !.i = TREND_DAYS - 1, !.stats = None]
                /\ rpc' = "now"
    /\ UNCHANGED << cache, reportsLeft, now, store, handlers >>

\* The report resumes from the last read of the loop: const now = new Date()
RepNow ==
    /\ rpc = "now"
    /\ rep' = [rep EXCEPT !.at = now]
    /\ rpc' = "daily"
    /\ UNCHANGED << cache, reportsLeft, now, store, handlers >>

\* Mutant: each day is put in front of the trend.
RepGetDailyNewestFirst ==
    /\ rpc = "daily"
    /\ LET dateKey == DayOf(rep.at - rep.i * SECONDS_PER_DAY)
       IN  rep' = [rep EXCEPT !.trend = << TrendEntry(dateKey, DailyGet(dateKey)) >> \o @,
                              !.i = @ - 1]
    /\ rpc' = IF rep.i = 0 THEN "today" ELSE "daily"
    /\ UNCHANGED << cache, reportsLeft, now, store, handlers >>

\* const dailyStats = await db.getCache(dailyKey); dailyTrend.push({...})
RepGetDaily ==
    /\ rpc = "daily"
    /\ LET dateKey == DayOf(rep.at - rep.i * SECONDS_PER_DAY)
       IN  rep' = [rep EXCEPT !.trend = Append(@, TrendEntry(dateKey, DailyGet(dateKey))),
                              !.i = @ - 1]
    /\ rpc' = IF rep.i = 0 THEN "today" ELSE "daily"
    /\ UNCHANGED << cache, reportsLeft, now, store, handlers >>

\* const todayStats = await db.getCache(todayDailyKey)
RepGetToday ==
    /\ rpc = "today"
    /\ rep' = [rep EXCEPT !.result = Some(BuildResult(rep, DailyGet(DayOf(rep.at))))]
    /\ rpc' = "cache_set"
    /\ UNCHANGED << cache, reportsLeft, now, store, handlers >>

\* await db.setCache(cacheKey, result, STATS_CACHE_TTL)
RepSetCache ==
    /\ rpc = "cache_set"
    /\ cache' = CacheEntry(rep.result[1], STATS_CACHE_TTL)
    /\ rpc' = "respond"
    /\ UNCHANGED << rep, reportsLeft, now, store, handlers >>

\* return NextResponse.json(...)
RepRespond ==
    /\ rpc = "respond"
    /\ rpc' = "idle"
    /\ rep' = NoReport
    /\ UNCHANGED << cache, reportsLeft, now, store, handlers >>

\* The store operations of the report, and those inside the try of the
\* loop over the users.
ReportOps == { "cache_get", "user_stats", "user_sessions", "daily", "today", "cache_set" }
UserOps == { "user_stats", "user_sessions" }

\* Mutant: a user whose sessions cannot be read is skipped, but the totals
\* of the UserStats read before are counted.
RepFailKeepsTotals ==
    /\ rpc \in ReportOps
    /\ failLeft > 0
    /\ failLeft' = failLeft - 1
    /\ IF rpc \in UserOps
       THEN LET s == IF rep.stats = None THEN DefaultUserStats ELSE rep.stats[1]
                skipped == [rep EXCEPT !.stats = None,
                                      !.totalWatchTime = @ + s.totalWatchTime,
                                      !.totalSessions = @ + s.totalSessions,
                                      !.failed = @ \cup {AllUsers[rep.i]}]
            IN  IF rep.i < Len(AllUsers)
                THEN /\ rep' = [skipped EXCEPT !.i = @ + 1]
                     /\ rpc' = "user_stats"
                ELSE /\ rep' = [skipped EXCEPT !.i = TREND_DAYS - 1]
                     /\ rpc' = "now"
       ELSE /\ rep' = [rep EXCEPT !.error = rpc, !.result = None]
            /\ rpc' = "respond"
    /\ UNCHANGED << cache, reportsLeft, now, store, pc, req, loc, reqLeft,
                    maxInFlight, nextGen, run, pre, settled >>

\* A store operation of the report throws.  Inside the loop over the users
\* the catch logs it and the loop goes on with the next user; anywhere else
\* the catch of the handler answers 500.
RepFail ==
    /\ rpc \in ReportOps
    /\ failLeft > 0
    /\ failLeft' = failLeft - 1
    /\ IF rpc \in UserOps
       THEN LET skipped == [rep EXCEPT !.stats = None,
                                      !.failed = @ \cup {AllUsers[rep.i]}]
            IN  IF rep.i < Len(AllUsers)
                THEN /\ rep' = [skipped EXCEPT !.i = @ + 1]
                     /\ rpc' = "user_stats"
                ELSE /\ rep' = [skipped EXCEPT !.i = TREND_DAYS - 1]
                     /\ rpc' = "now"
       ELSE /\ rep' = [rep EXCEPT !.error = rpc, !.result = None]
            /\ rpc' = "respond"
    /\ UNCHANGED << cache, reportsLeft, now, store, pc, req, loc, reqLeft,
                    maxInFlight, nextGen, run, pre, settled >>

\* ---------------------------------------------------------- initial states
\* A store the program has been running on: empty, or one of the states
\* below, each of them the result of earlier heartbeats and end-watches.
EmptyStore ==
    [ watch    |-> [k \in Keys |-> None],
      sessions |-> [u \in Users |-> << >>],
      stats    |-> [u \in Users |-> None],
      daily    |-> [d \in Days |-> None],
      channel  |-> [c \in ChannelIds |-> None],
      run      |-> [k \in Keys |-> None] ]

\* A WatchState after n heartbeats on channel c1, the last one a heartbeat
\* interval before the clock starts.
Watched(n, g) ==
    [ val |-> [ channelId      |-> "c1",
                channelName    |-> "News",
                sourceKey      |-> "s1",
                startTime      |-> StartTime - n * HEARTBEAT_INTERVAL,
                lastHeartbeat  |-> StartTime - HEARTBEAT_INTERVAL,
                heartbeatCount |-> n,
                gen            |-> g ],
      exp |-> StartTime - HEARTBEAT_INTERVAL + WATCH_STATE_TTL ]

RunOf(n) ==
    [ channelId |-> "c1", beats |-> n,
      firstAt |-> StartTime - n * HEARTBEAT_INTERVAL,
      lastAt |-> StartTime - HEARTBEAT_INTERVAL ]

\* The heartbeats of the longest session that is recorded.
LongBeats == MAX_SESSION_DURATION \div HEARTBEAT_INTERVAL

\* alice has watched c1 in tab t1 for LongBeats heartbeats.
LongStore ==
    [ EmptyStore EXCEPT
        !.watch = [@ EXCEPT ![<< "alice", "t1" >>] = Some(Watched(LongBeats, 0))],
        !.run = [@ EXCEPT ![<< "alice", "t1" >>] = Some(RunOf(LongBeats))] ]

\* The i-th newest of the one-heartbeat sessions of c1 alice has ended today.
PastSession(i) ==
    [ channelId      |-> "c1",
      channelName    |-> "News",
      sourceKey      |-> "s1",
      startTime      |-> StartTime - 2 * i * HEARTBEAT_INTERVAL - HEARTBEAT_INTERVAL,
      endTime        |-> StartTime - 2 * i * HEARTBEAT_INTERVAL,
      duration       |-> HEARTBEAT_INTERVAL,
      heartbeatCount |-> 1,
      gen            |-> 0 - i ]

\* alice's session list is full: she has ended SESSION_LIST_CAP sessions.
FullStore ==
    LET n == SESSION_LIST_CAP
        last == PastSession(1).endTime
    IN  [ EmptyStore EXCEPT
            !.sessions = [@ EXCEPT !["alice"] = [i \in 1 .. n |-> PastSession(i)]],
            !.stats = [@ EXCEPT !["alice"] =
                Some([ totalWatchTime |-> n * HEARTBEAT_INTERVAL,
                       totalSessions |-> n, lastWatchTime |-> last ])],
            !.daily = [@ EXCEPT ![DayOf(StartTime)] =
                Some([ val |-> [ watchTime |-> n * HEARTBEAT_INTERVAL,
                                 sessions |-> n, users |-> << "alice" >> ],
                       exp |-> last + DAILY_STATS_TTL ])],
            !.channel = [@ EXCEPT !["c1"] =
                Some([ channelId |-> "c1", channelName |-> "News",
                       totalWatchTime |-> n * HEARTBEAT_INTERVAL,
                       totalSessions |-> n, users |-> << "alice" >> ])] ]

\* Every key is watching c1: alice's second tab has sent one heartbeat,
\* the others two.
TabBeats(k) == IF k = << "alice", "t2" >> THEN 1 ELSE 2
TabGen(k) == IF k[1] = "bob" THEN 0 - 2 ELSE IF k[2] = "t2" THEN 0 - 1 ELSE 0

TabsStore ==
    [ EmptyStore EXCEPT
        !.watch = [k \in Keys |-> Some(Watched(TabBeats(k), TabGen(k)))],
        !.run = [k \in Keys |-> Some(RunOf(TabBeats(k)))] ]

\* The i-th newest of the sessions of the users of SharedStore: alice has
\* watched c2 for two heartbeats and c1 for one, then bob c1 for four.
SharedSession(i) ==
    LET user == << "bob", "alice", "alice" >>
        id == << "c1", "c1", "c2" >>
        name == << "News", "News", "Sports" >>
        beats == << 4, 1, 2 >>
        end == StartTime - i * HEARTBEAT_INTERVAL
    IN  [ channelId      |-> id[i],
          channelName    |-> name[i],
          sourceKey      |-> "s1",
          startTime      |-> end - beats[i] * HEARTBEAT_INTERVAL,
          endTime        |-> end,
          duration       |-> beats[i] * HEARTBEAT_INTERVAL,
          heartbeatCount |-> beats[i],
          gen            |-> 0 - i ]

\* alice and bob have ended sessions today, both of them on c1.
SharedStore ==
    LET a1 == SharedSession(2)
        a2 == SharedSession(3)
        b1 == SharedSession(1)
    IN  [ EmptyStore EXCEPT
            !.sessions = [@ EXCEPT !["alice"] = << a1, a2 >>, !["bob"] = << b1 >>],
            !.stats = [@ EXCEPT
                !["alice"] = Some([ totalWatchTime |-> a1.duration + a2.duration,
                                    totalSessions |-> 2,
                                    lastWatchTime |-> a1.endTime ]),
                !["bob"] = Some([ totalWatchTime |-> b1.duration,
                                  totalSessions |-> 1,
                                  lastWatchTime |-> b1.endTime ])],
            !.daily = [@ EXCEPT ![DayOf(StartTime)] =
                Some([ val |-> [ watchTime |-> a1.duration + a2.duration + b1.duration,
                                 sessions |-> 3, users |-> << "alice", "bob" >> ],
                       exp |-> b1.endTime + DAILY_STATS_TTL ])],
            !.channel = [@ EXCEPT
                !["c1"] = Some([ channelId |-> "c1", channelName |-> "News",
                                 totalWatchTime |-> a1.duration + b1.duration,
                                 totalSessions |-> 2, users |-> << "alice", "bob" >> ]),
                !["c2"] = Some([ channelId |-> "c2", channelName |-> "Sports",
                                 totalWatchTime |-> a2.duration,
                                 totalSessions |-> 1, users |-> << "alice" >> ])] ]

\* bob has ended the newest session of SharedStore today, alice's first
\* tab has sent two heartbeats on c1.
EndedStore ==
    LET b1 == SharedSession(1)
        k == << "alice", "t1" >>
    IN  [ EmptyStore EXCEPT
            !.watch = [@ EXCEPT ![k] = Some(Watched(TabBeats(k), TabGen(k)))],
            !.run = [@ EXCEPT ![k] = Some(RunOf(TabBeats(k)))],
            !.sessions = [@ EXCEPT !["bob"] = << b1 >>],
            !.stats = [@ EXCEPT
                !["bob"] = Some([ totalWatchTime |-> b1.duration,
                                  totalSessions |-> 1,
                                  lastWatchTime |-> b1.endTime ])],
            !.daily = [@ EXCEPT ![DayOf(StartTime)] =
                Some([ val |-> [ watchTime |-> b1.duration,
                                 sessions |-> 1, users |-> << "bob" >> ],
                       exp |-> b1.endTime + DAILY_STATS_TTL ])],
            !.channel = [@ EXCEPT
                !["c1"] = Some([ channelId |-> "c1", channelName |-> "News",
                                 totalWatchTime |-> b1.duration,
                                 totalSessions |-> 1, users |-> << "bob" >> ])] ]

\* The report of a store without aggregates, asked for at time t.
ReportOfNothing(t) ==
    [ totalUsers |-> 0, totalWatchTime |-> 0, totalSessions |-> 0,
      todayActiveUsers |-> 0, hotChannels |-> << >>,
      dailyTrend |-> [j \in 1 .. TREND_DAYS |->
                        TrendEntry(DayOf(t) - TREND_DAYS + j, None)],
      userStats |-> << >> ]

\* A report cached nine heartbeat intervals before the clock starts.
CachedNothing ==
    LET t == StartTime - 9 * HEARTBEAT_INTERVAL
    IN  Some([val |-> ReportOfNothing(t), exp |-> t + STATS_CACHE_TTL])

NoReporter ==
    /\ cache = None
    /\ rpc = "idle"
    /\ rep = NoReport
    /\ reportsLeft = 0

InitFrom(s, inFlight, requests, failures) ==
    /\ now = StartTime
    /\ watch = s.watch
    /\ sessions = s.sessions
    /\ stats = s.stats
    /\ daily = s.daily
    /\ channel = s.channel
    /\ run = s.run
    /\ pc = [p \in Procs |-> "idle"]
    /\ req = [p \in Procs |-> NoRequest]
    /\ loc = [p \in Procs |-> NoLocals]
    /\ pre = [p \in Procs |-> None]
    /\ reqLeft = requests
    /\ failLeft = failures
    /\ maxInFlight = inFlight
    /\ nextGen = 1
    /\ settled = << >>

\* Requests processed one at a time, no store failure.
Init ==
    /\ \E s \in {EmptyStore, LongStore, FullStore, TabsStore} : InitFrom(s, 1, MaxRequests, 0)
    /\ NoReporter

\* Requests processed one at a time, store operations may fail.
InitFail ==
    /\ \E s \in {EmptyStore, LongStore, TabsStore} : InitFrom(s, 1, MaxRequests, MaxFailures)
    /\ NoReporter

\* One request per handler, all of them in flight at once.
InitConc ==
    /\ \E s \in {TabsStore} : InitFrom(s, Cardinality(Procs), Cardinality(Procs), 0)
    /\ NoReporter

\* End-watches of alice's first tab processed one at a time, with reports
\* asked for while they run; a report of nothing may be cached.
InitReport ==
    /\ InitFrom(EndedStore, 1, MaxRequests, 0)
    /\ cache \in {None, CachedNothing}
    /\ rpc = "idle"
    /\ rep = NoReport
    /\ reportsLeft = MaxReports

\* Reports asked for between requests, store operations of the report may
\* fail.
InitReportFail ==
    /\ \E s \in {EmptyStore, SharedStore, FullStore} : InitFrom(s, 1, 0, MaxFailures)
    /\ cache \in IF sessions = EmptyStore.sessions THEN {None, CachedNothing} ELSE {None}
    /\ rpc = "idle"
    /\ rep = NoReport
    /\ reportsLeft = MaxReports

\* Reports asked for while the heartbeats of a tab and end-watches run, all
\* within one heartbeat interval.
InitReportBeat ==
    /\ InitFrom(TabsStore, 1, MaxRequests, 0)
    /\ cache \in {None, CachedNothing}
    /\ rpc = "idle"
    /\ rep = NoReport
    /\ reportsLeft = MaxReports

Step(p) ==
    \/ HbGet(p) \/ HbSet(p) \/ EndGet(p) \/ EndDel(p)
    \/ GetSessions(p) \/ SetSessions(p) \/ GetStats(p) \/ SetStats(p)
    \/ ReadToday(p) \/ GetDaily(p) \/ SetDaily(p) \/ GetChannel(p) \/ SetChannel(p)
    \/ Return(p) \/ Respond400(p)

Next ==
    \/ \E p \in Procs, r \in HeartbeatRequests : BeginHeartbeat(p, r.key, r.id)
    \/ \E p \in Procs, r \in EndRequests : BeginEndWatch(p, r.key)
    \/ \E p \in Procs, r \in HeartbeatRequests : Reject(p, "hb", r.key, r.id)
    \/ \E p \in Procs, r \in EndRequests : Reject(p, "end", r.key, NoIdentity)
    \/ \E p \in Procs : Step(p)
    \/ Tick

\* The steps of end-watch and of its settlement.
EndStep(p) ==
    \/ EndGet(p) \/ EndDel(p)
    \/ GetSessions(p) \/ SetSessions(p) \/ GetStats(p) \/ SetStats(p)
    \/ ReadToday(p) \/ GetDaily(p) \/ SetDaily(p) \/ GetChannel(p) \/ SetChannel(p)
    \/ Return(p)

\* The steps of a request that has all its fields.
WatchStep(p) == HbGet(p) \/ HbSet(p) \/ EndStep(p)

\* Heartbeats of the first source of a channel.
PlainRequests == { r \in HeartbeatRequests : r.id.sourceKey = "s1" }

\* Requests that have all their fields, with store operations that fail.
NextFail ==
    \/ \E p \in Procs, r \in PlainRequests : BeginHeartbeat(p, r.key, r.id)
    \/ \E p \in Procs, k \in Keys : BeginEndWatch(p, k)
    \/ \E p \in Procs : WatchStep(p)
    \/ Tick
    \/ \E p \in Procs : Fail(p)

\* The ends of alice's first tab.
FirstTabEnds == { r \in EndRequests : r.key = << "alice", "t1" >> }

NextReport ==
    \/ \E p \in Procs, r \in FirstTabEnds : BeginEndWatch(p, r.key)
    \/ \E p \in Procs : EndStep(p)
    \/ Tick
    \/ \E force \in BOOLEAN : BeginReport(force)
    \/ RepGetCache \/ RepGetStats \/ RepGetSessions \/ RepNow
    \/ RepGetDaily \/ RepGetToday \/ RepSetCache \/ RepRespond

\* The steps of the report.
ReportStep ==
    \/ RepGetCache \/ RepGetStats \/ RepGetSessions \/ RepNow
    \/ RepGetDaily \/ RepGetToday \/ RepSetCache \/ RepRespond

NextReportFail ==
    \/ Tick
    \/ \E force \in BOOLEAN : BeginReport(force)
    \/ ReportStep
    \/ RepFail

\* The heartbeats of alice's first tab, on the channel it is watching and
\* on another one, and the end of bob's tab.
TabRequests == { r \in HeartbeatRequests :
                    r.key = << "alice", "t1" >> /\ r.id.sourceKey = "s1" }
TabEnds == { r \in EndRequests : r.key = << "bob", "t1" >> }

NextReportBeat ==
    \/ \E p \in Procs, r \in TabRequests : BeginHeartbeat(p, r.key, r.id)
    \/ \E p \in Procs, r \in TabEnds : BeginEndWatch(p, r.key)
    \/ \E p \in Procs : WatchStep(p)
    \/ \E force \in BOOLEAN : BeginReport(force)
    \/ ReportStep

\* Heartbeats and ends of alice's first tab processed one at a time, the
\* clock advancing by half heartbeat intervals.
InitExpiry ==
    /\ \E s \in {LongStore, TabsStore} : InitFrom(s, 1, MaxRequests, 0)
    /\ NoReporter

NextExpiry ==
    \/ \E p \in Procs, r \in TabRequests : BeginHeartbeat(p, r.key, r.id)
    \/ \E p \in Procs, r \in FirstTabEnds : BeginEndWatch(p, r.key)
    \/ \E p \in Procs : WatchStep(p)
    \/ Pause

Spec == Init /\ [][Next]_vars
FailSpec == InitFail /\ [][NextFail]_vars
ConcSpec == InitConc /\ [][Next]_vars
ReportSpec == InitReport /\ [][NextReport]_vars
ReportFailSpec == InitReportFail /\ [][NextReportFail]_vars
ReportBeatSpec == InitReportBeat /\ [][NextReportBeat]_vars
ExpirySpec == InitExpiry /\ [][NextExpiry]_vars

\* ================================================================ properties
InBounds(d) == 30 <= d /\ d <= 28800

\* The handler has done its work and is about to answer success.
Answers(p, kind) ==
    pc[p] = "return" /\ req[p].kind = kind /\ loc[p].result = "ok"

\* What is stored under the key, whatever is left of its time-to-live.
StoredState(k) == IF watch[k] = None THEN None ELSE Some(watch[k][1].val)

\* list is what it was before the request with session s put in front
\* (and, at capacity, the oldest entry gone).
AddedInFront(list, before, s) ==
    /\ Len(list) = IF Len(before) < 100 THEN Len(before) + 1 ELSE 100
    /\ list[1] = s
    /\ \A i \in 2 .. Len(list) : list[i] = before[i - 1]

AggregatesOf(snapshot) ==
    << snapshot.sessions, snapshot.stats, snapshot.daily, snapshot.channel >>

\* A heartbeat that finds a live WatchState of another channel, the run of
\* heartbeats on that channel being Beats(p) long.
Beats(p) == run[req[p].key][1].beats

SwitchAfter(p) ==
    /\ Answers(p, "hb")
    /\ loc[p].last # None
    /\ run[req[p].key] # None
    /\ run[req[p].key][1].channelId # req[p].id.channelId

\* C1: serial requests, no failure, no expiry: a heartbeat on channel B
\* after N heartbeats on channel A (N * 30 within [30, 28800]) has added
\* exactly one WatchSession for A, of duration N * 30 and heartbeatCount N,
\* and has stored a fresh WatchState for B with heartbeatCount 1 and
\* startTime = lastHeartbeat = the time of that heartbeat.
C1_SwitchSettlesOnce ==
    \A p \in Procs :
        (SwitchAfter(p) /\ InBounds(Beats(p) * 30)) =>
            LET k == req[p].key
                n == Beats(p)
                a == run[k][1]
                list == sessions[k[1]]
                w == StoredState(k)
            IN  /\ AddedInFront(list, pre[p][1].sessions[k[1]], list[1])
                /\ list[1].channelId = a.channelId
                /\ list[1].duration = n * 30
                /\ list[1].heartbeatCount = n
                /\ w # None
                /\ w[1].channelId = req[p].id.channelId
                /\ w[1].sourceKey = req[p].id.sourceKey
                /\ w[1].heartbeatCount = 1
                /\ w[1].startTime = loc[p].now
                /\ w[1].lastHeartbeat = loc[p].now

C1_Witness ==
    \E p \in Procs :
        /\ SwitchAfter(p)
        /\ Beats(p) = 2
        /\ Len(sessions[req[p].key[1]]) = 1

\* An end_watch that finds a live WatchState after a run of heartbeats.
EndAfter(p) ==
    /\ Answers(p, "end")
    /\ loc[p].last # None
    /\ run[req[p].key] # None

\* C2: serial requests, no failure, no expiry: end_watch after N
\* same-channel heartbeats (N * 30 within bounds) has added exactly one
\* WatchSession, of duration N * 30 and endTime = now, and no WatchState is
\* stored under the key when it returns.
C2_EndSettlesAndDeletes ==
    \A p \in Procs :
        (EndAfter(p) /\ InBounds(Beats(p) * 30)) =>
            LET k == req[p].key
                n == Beats(p)
                list == sessions[k[1]]
            IN  /\ AddedInFront(list, pre[p][1].sessions[k[1]], list[1])
                /\ list[1].channelId = run[k][1].channelId
                /\ list[1].duration = n * 30
                /\ list[1].endTime = loc[p].now
                /\ watch[k] = None

C2_Witness ==
    \E p \in Procs :
        /\ EndAfter(p)
        /\ Beats(p) = 2
        /\ pre[p][1].watch[req[p].key] # None
        /\ Len(sessions[req[p].key[1]]) = 1

Served(k) == \E p \in Procs : pc[p] # "idle" /\ req[p].key = k

\* A heartbeat that starts or continues a run of heartbeats on one channel.
SameChannelBeat(p) ==
    /\ Answers(p, "hb")
    /\ \/ loc[p].last = None
       \/ run[req[p].key] # None
            /\ run[req[p].key][1].channelId = req[p].id.channelId

\* C3: serial requests, no failure: after N >= 1 heartbeats of one channel
\* on a key, and while the expiry window since the last of them has not run
\* out, the key holds a WatchState with heartbeatCount = N, startTime = the
\* time of the first and lastHeartbeat = the time of the last; none of these
\* heartbeats changes an aggregate or settles the state.
C3_HeartbeatsCounted ==
    /\ \A k \in Keys :
         (~Served(k) /\ run[k] # None /\ now < run[k][1].lastAt + 60) =>
            /\ WatchGet(k) # None
            /\ WatchGet(k)[1].channelId = run[k][1].channelId
            /\ WatchGet(k)[1].heartbeatCount = run[k][1].beats
            /\ WatchGet(k)[1].startTime = run[k][1].firstAt
            /\ WatchGet(k)[1].lastHeartbeat = run[k][1].lastAt
            /\ \A u \in Users : \A i \in DOMAIN sessions[u] :
                  sessions[u][i].gen # WatchGet(k)[1].gen
    /\ \A p \in Procs :
         SameChannelBeat(p) =>
            /\ << sessions, stats, daily, channel >> = AggregatesOf(pre[p][1])
            /\ loc[p].settle = "none"

C3_Witness ==
    \E k \in Keys :
        /\ ~Served(k)
        /\ run[k] # None
        /\ run[k][1].beats = 3
        /\ run[k][1].firstAt < run[k][1].lastAt
        /\ now < run[k][1].lastAt + 60

\* The handler has read a WatchState that it hands to settleWatchSession.
Settles(p) ==
    /\ loc[p].last # None
    /\ \/ req[p].kind = "end"
       \/ req[p].kind = "hb" /\ loc[p].last[1].channelId # req[p].id.channelId

\* C4: every stored WatchSession has duration = heartbeatCount * 30 with
\* 30 <= duration <= 28800; a settlement is discarded exactly when
\* heartbeatCount * 30 is outside these bounds (1 and 960 heartbeats are
\* recorded), and a discarded settlement leaves the session lists,
\* UserStats, DailyStats and ChannelStats unchanged.
C4_DurationBounded ==
    /\ \A u \in Users : \A i \in DOMAIN sessions[u] :
          /\ sessions[u][i].duration = sessions[u][i].heartbeatCount * 30
          /\ InBounds(sessions[u][i].duration)
    /\ \A p \in Procs :
          Settles(p) =>
             (loc[p].settle = "dropped"
                <=> ~InBounds(loc[p].last[1].heartbeatCount * 30))
    /\ \A p \in Procs :
          loc[p].settle = "dropped" =>
             << sessions, stats, daily, channel >> = AggregatesOf(pre[p][1])

C4_Witness ==
    \E p \in Procs :
        /\ pc[p] = "return"
        /\ Settles(p)
        /\ loc[p].last[1].heartbeatCount = 961
        /\ loc[p].settle = "dropped"

RECURSIVE SumDuration(_)
SumDuration(list) ==
    IF list = << >> THEN 0
    ELSE IF Len(list) = 1 THEN list[1].duration
    ELSE LET h == Len(list) \div 2
         IN  SumDuration(SubSeq(list, 1, h)) + SumDuration(SubSeq(list, h + 1, Len(list)))

TotalWatchTime(u) == IF stats[u] = None THEN 0 ELSE stats[u][1].totalWatchTime
TotalSessions(u) == IF stats[u] = None THEN 0 ELSE stats[u][1].totalSessions

\* C5 as stated: serial requests, no failure: between requests the
\* durations in a user's session list add up to UserStats.totalWatchTime.
C5_SumEqualsTotal ==
    InFlight = {} =>
        \A u \in Users : SumDuration(sessions[u]) = TotalWatchTime(u)

\* C5 as amended: the same, for a user of whom no more than 100 sessions
\* have been settled, so that the capped list has lost none of them.
C5_SumEqualsTotalUncapped ==
    InFlight = {} =>
        \A u \in Users :
            TotalSessions(u) <= 100 =>
                SumDuration(sessions[u]) = TotalWatchTime(u)

C5_Witness ==
    /\ InFlight = {}
    /\ \E u \in Users :
          /\ TotalSessions(u) = 2
          /\ Len(sessions[u]) = 2
          /\ sessions[u][1].duration # sessions[u][2].duration

Range(list) == { list[i] : i \in DOMAIN list }

\* The numbers of an aggregate that may be absent.
Was(read, zero) == IF read = None THEN zero ELSE read[1]
WasEntry(read, zero) == IF read = None THEN zero ELSE read[1].val

\* The settlement of handler p has applied all four updates.
Applied(p) == loc[p].settle = "applied"

\* C6: serial requests, no failure: a settlement that passes the filter
\* has, with d = heartbeatCount * 30 and endTime = now of the request, put
\* the session in front of the user's list, added d and 1 to the user's
\* UserStats and set lastWatchTime = endTime, added d and 1 to the
\* DailyStats of the day of the daily update and to the ChannelStats of the
\* channel and put the user in both users sets, an absent aggregate
\* counting as zero; no other record has changed.
C6_AllFourUpdates ==
    \A p \in Procs :
        Applied(p) =>
            LET u == req[p].key[1]
                st == loc[p].last[1]
                d == st.heartbeatCount * 30
                e == loc[p].now
                day == loc[p].today
                was == pre[p][1]
                us == Was(was.stats[u], [totalWatchTime |-> 0, totalSessions |-> 0])
                ds == WasEntry(was.daily[day],
                               [watchTime |-> 0, sessions |-> 0, users |-> << >>])
                cs == Was(was.channel[st.channelId],
                          [totalWatchTime |-> 0, totalSessions |-> 0, users |-> << >>])
            IN  /\ AddedInFront(sessions[u], was.sessions[u], sessions[u][1])
                /\ sessions[u][1].channelId = st.channelId
                /\ sessions[u][1].startTime = st.startTime
                /\ sessions[u][1].endTime = e
                /\ sessions[u][1].duration = d
                /\ sessions[u][1].heartbeatCount = st.heartbeatCount
                /\ stats[u] = Some([ totalWatchTime |-> us.totalWatchTime + d,
                                     totalSessions |-> us.totalSessions + 1,
                                     lastWatchTime |-> e ])
                /\ daily[day] # None
                /\ daily[day][1].val.watchTime = ds.watchTime + d
                /\ daily[day][1].val.sessions = ds.sessions + 1
                /\ Range(daily[day][1].val.users) = Range(ds.users) \cup {u}
                /\ channel[st.channelId] # None
                /\ channel[st.channelId][1].channelId = st.channelId
                /\ channel[st.channelId][1].totalWatchTime = cs.totalWatchTime + d
                /\ channel[st.channelId][1].totalSessions = cs.totalSessions + 1
                /\ Range(channel[st.channelId][1].users) = Range(cs.users) \cup {u}
                /\ \A v \in Users \ {u} :
                      sessions[v] = was.sessions[v] /\ stats[v] = was.stats[v]
                /\ \A other \in Days \ {day} : daily[other] = was.daily[other]
                /\ \A c \in ChannelIds \ {st.channelId} : channel[c] = was.channel[c]

\* bob's first settlement, on a channel alice has watched before.
C6_Witness ==
    \E p \in Procs :
        /\ Applied(p)
        /\ pc[p] = "return"
        /\ pre[p][1].stats[req[p].key[1]] = None
        /\ pre[p][1].channel[loc[p].last[1].channelId] # None
        /\ loc[p].last[1].heartbeatCount = 2

\* Midnight passes between new Date() of the daily update and its read:
\* the record of the day before is written, to live 7 days from midnight.
C6_WitnessMidnight ==
    \E p \in Procs :
        /\ Applied(p)
        /\ loc[p].today = DayOf(StartTime)
        /\ daily[loc[p].today][1].exp =
              (DayOf(StartTime) + 1) * SECONDS_PER_DAY + DAILY_STATS_TTL

\* Settlements that have applied all four updates and satisfy Is.
SettledCount(Is(_)) == Cardinality({ i \in DOMAIN settled : Is(settled[i]) })

DailySessions(d) == IF daily[d] = None THEN 0 ELSE daily[d][1].val.sessions
ChannelSessions(c) == IF channel[c] = None THEN 0 ELSE channel[c][1].totalSessions

RECURSIVE SumDailySessions(_)
SumDailySessions(S) ==
    IF S = {} THEN 0
    ELSE LET d == CHOOSE x \in S : TRUE
         IN  DailySessions(d) + SumDailySessions(S \ {d})

\* C7: concurrent requests on an initially empty set of aggregates: when
\* all settlements have completed, no update of a key is lost: each user's
\* session list and UserStats, each channel's ChannelStats and the
\* DailyStats hold every completed settlement.
C7_NoLostUpdate ==
    InFlight = {} =>
        /\ \A u \in Users :
              LET Mine(s) == s.user = u
              IN  /\ TotalSessions(u) = SettledCount(Mine)
                  /\ Len(sessions[u]) = SettledCount(Mine)
        /\ \A c \in ChannelIds :
              LET Here(s) == s.channelId = c
              IN  ChannelSessions(c) = SettledCount(Here)
        /\ SumDailySessions(Days) = Len(settled)

\* C8: nothing makes a heartbeat wait for another handler of the same
\* key: its read of the WatchState can always be taken, so two heartbeats
\* that switch away from a channel can both read the old state and both
\* settle it.
C8_NoMutualExclusion ==
    /\ \A p \in Procs : pc[p] = "hb_get" => ENABLED HbGet(p)
    /\ \A p, q \in Procs :
          ( /\ p # q
            /\ req[p].kind = "hb" /\ req[q].kind = "hb"
            /\ req[p].key = req[q].key
            /\ Settles(p) /\ Settles(q)
            /\ loc[p].last = loc[q].last
            /\ InBounds(loc[p].last[1].heartbeatCount * 30) )
          => /\ loc[p].session # None
             /\ loc[q].session # None
             /\ loc[p].session[1].gen = loc[q].session[1].gen

\* One viewing (one WatchState) recorded as two sessions and counted twice
\* in UserStats, DailyStats and ChannelStats.
C8_Witness ==
    /\ InFlight = {}
    /\ \E u \in Users :
          /\ Len(sessions[u]) = 2
          /\ sessions[u][1].gen = sessions[u][2].gen
          /\ TotalSessions(u) = 2
          /\ ChannelSessions(sessions[u][1].channelId) = 2
          /\ SumDailySessions(Days) = 2
          /\ Len(settled) = 2
          /\ settled[1].gen = settled[2].gen
          /\ \A v \in Users \ {u} : sessions[v] = << >>

\* C9: serial requests, store operations may fail: no WatchState is
\* settled into more than one WatchSession or applied to the aggregates
\* more than once.
C9_SettledOnce ==
    /\ \A u \in Users : \A i, j \in DOMAIN sessions[u] :
          i # j => sessions[u][i].gen # sessions[u][j].gen
    /\ \A i, j \in DOMAIN settled : i # j => settled[i].gen # settled[j].gen

\* C10: the DailyStats record a settlement updates is the one of the UTC
\* day of its endTime, and no other day's record changes.
C10_DailyKeyIsEndTimeDay ==
    \A p \in Procs :
        Applied(p) =>
            LET day == DayOf(loc[p].session[1].endTime)
            IN  /\ daily[day] # pre[p][1].daily[day]
                /\ \A other \in Days \ {day} : daily[other] = pre[p][1].daily[other]

\* The settlement of handler p has written the user's session list.
SessionsWritten(p) ==
    /\ loc[p].session # None
    /\ loc[p].settle # "failed"
    /\ pc[p] \notin {"s_get_sessions", "s_set_sessions"}

NewestFirst(list) ==
    \A i \in 1 .. Len(list) - 1 : list[i].endTime >= list[i + 1].endTime

\* C11: serial requests: a user's session list never holds more than 100
\* sessions and is ordered by endTime, newest first; a settlement onto a
\* list of 100 leaves 100 entries, the new session first, the others moved
\* down by one, and the one that was last is gone.
C11_ListCappedNewestFirst ==
    /\ \A u \in Users : Len(sessions[u]) <= 100 /\ NewestFirst(sessions[u])
    /\ \A p \in Procs :
          (SessionsWritten(p) /\ Len(pre[p][1].sessions[User(p)]) = 100) =>
             LET list == sessions[User(p)]
                 before == pre[p][1].sessions[User(p)]
             IN  /\ Len(list) = 100
                 /\ list[1] = loc[p].session[1]
                 /\ \A i \in 2 .. 100 : list[i] = before[i - 1]
                 /\ \A i \in 1 .. 100 : list[i] # before[100]

\* A settlement onto alice's full list.
C11_Witness ==
    \E p \in Procs :
        /\ SessionsWritten(p)
        /\ pc[p] = "return"
        /\ Len(pre[p][1].sessions[User(p)]) = 100
        /\ sessions[User(p)][1].gen > 0
        /\ sessions[User(p)][100].gen = sessions[User(p)][99].gen - 1
        /\ sessions[User(p)][1].endTime > sessions[User(p)][2].endTime

\* The time-to-live of what was last written under the key has run out at
\* time t.
ExpiredAt(entry, t) == entry # None /\ t >= entry[1].exp

\* The WatchState number g has been settled into some session.
SettledGen(g) ==
    \/ \E u \in Users : \E i \in DOMAIN sessions[u] : sessions[u][i].gen = g
    \/ \E i \in DOMAIN settled : settled[i].gen = g

\* A heartbeat whose read of the key's WatchState is served when the
\* state has expired.
BeatAfterExpiry(p) ==
    /\ Answers(p, "hb")
    /\ ExpiredAt(pre[p][1].watch[req[p].key], loc[p].readAt)

\* C12: serial requests, no failure: a WatchState that got no heartbeat
\* and no end_watch for 60 seconds is gone from the store and has not been
\* settled into any session or aggregate; the next heartbeat on the key,
\* for whatever channel, settles nothing, changes no aggregate and stores a
\* new WatchState with heartbeatCount 1.
C12_ExpiryWithoutSettlement ==
    /\ \A k \in Keys :
          (~Served(k) /\ ExpiredAt(watch[k], now)) =>
             /\ WatchGet(k) = None
             /\ ~SettledGen(watch[k][1].val.gen)
    /\ \A p \in Procs :
          BeatAfterExpiry(p) =>
             LET k == req[p].key
                 old == pre[p][1].watch[k][1].val
                 w == StoredState(k)
             IN  /\ loc[p].last = None
                 /\ loc[p].settle = "none"
                 /\ ~SettledGen(old.gen)
                 /\ << sessions, stats, daily, channel >> = AggregatesOf(pre[p][1])
                 /\ w # None
                 /\ w[1].channelId = req[p].id.channelId
                 /\ w[1].heartbeatCount = 1
                 /\ w[1].startTime = loc[p].now
                 /\ w[1].lastHeartbeat = loc[p].now
                 /\ w[1].gen # old.gen

\* A heartbeat for c2 on a key whose two-heartbeat state of c1 has expired.
C12_Witness ==
    \E p \in Procs :
        /\ BeatAfterExpiry(p)
        /\ pre[p][1].watch[req[p].key][1].val.heartbeatCount = 2
        /\ pre[p][1].watch[req[p].key][1].val.channelId # req[p].id.channelId

\* The heartbeat's Date.now() comes before the expiry of the state, the
\* store serves its read after it.
C12_WitnessDelayed ==
    \E p \in Procs :
        /\ BeatAfterExpiry(p)
        /\ ~ExpiredAt(pre[p][1].watch[req[p].key], loc[p].now)
        /\ watch[req[p].key][1].val.startTime = loc[p].now
        /\ watch[req[p].key][1].exp = loc[p].readAt + WATCH_STATE_TTL

\* When the entry was written: its time-to-live counts from there.
WrittenAt(entry) == IF entry = None THEN 0 ELSE entry[1].exp - WATCH_STATE_TTL

\* A heartbeat whose read is served less than 60 seconds after the last
\* write of the key's state.
BeatInWindow(p) ==
    /\ Answers(p, "hb")
    /\ pre[p][1].watch[req[p].key] # None
    /\ loc[p].readAt - WrittenAt(pre[p][1].watch[req[p].key]) < 60

\* The entry the store held under the key of the request when the
\* request started; requests are served one at a time, so it is the entry
\* the heartbeat's read looks for.
OldEntry(p) == pre[p][1].watch[req[p].key]

\* Seconds from the Date.now() of the heartbeat that wrote the entry to
\* the Date.now() of this one: 30 on schedule, 60 when one heartbeat was
\* missed, 90 when two were.
SinceLastBeat(p) == loc[p].now - OldEntry(p)[1].val.lastHeartbeat

\* Seconds from the Date.now() of the heartbeat that wrote the entry to
\* the moment the store applied its write.
WriteLag(entry) == WrittenAt(entry) - entry[1].val.lastHeartbeat

\* Every heartbeat, whether it creates, updates or replaces the
\* WatchState, gives it 60 seconds to live from its write, which the store
\* applies between the read of the state and the answer.
ResetsTimeToLive ==
    \A p \in Procs :
        Answers(p, "hb") =>
           /\ watch[req[p].key] # None
           /\ loc[p].readAt <= WrittenAt(watch[req[p].key])
           /\ WrittenAt(watch[req[p].key]) <= now

\* A heartbeat served less than 60 seconds after the previous write finds
\* the state, however many heartbeats it has counted, and continues it if
\* the channel is the same.
ContinuesInWindow ==
    \A p \in Procs :
        BeatInWindow(p) =>
           LET old == OldEntry(p)[1].val
               w == StoredState(req[p].key)
           IN  /\ loc[p].last = Some(old)
               /\ w # None
               /\ old.channelId = req[p].id.channelId =>
                     /\ w[1].heartbeatCount = old.heartbeatCount + 1
                     /\ w[1].startTime = old.startTime
                     /\ w[1].gen = old.gen

\* A heartbeat served 60 seconds or more after the previous write finds
\* nothing and starts a state of its own.
RestartsOutOfWindow ==
    \A p \in Procs :
        BeatAfterExpiry(p) =>
           LET old == OldEntry(p)[1].val
               w == StoredState(req[p].key)
           IN  /\ loc[p].last = None
               /\ w # None
               /\ w[1].heartbeatCount = 1
               /\ w[1].startTime = loc[p].now
               /\ w[1].gen # old.gen

C13_WitnessMissedKept ==
    \E p \in Procs :
        /\ BeatInWindow(p)
        /\ SinceLastBeat(p) = 2 * HEARTBEAT_INTERVAL
        /\ WriteLag(OldEntry(p)) = PauseLength
        /\ loc[p].readAt = loc[p].now
        /\ OldEntry(p)[1].val.heartbeatCount = 3
        /\ StoredState(req[p].key)[1].heartbeatCount = 4

\* A heartbeat that is 15 seconds late, 45 seconds after the last one,
\* continues the state.
C13_WitnessLate ==
    \E p \in Procs :
        /\ BeatInWindow(p)
        /\ SinceLastBeat(p) = HEARTBEAT_INTERVAL + PauseLength
        /\ loc[p].readAt - WrittenAt(OldEntry(p)) = HEARTBEAT_INTERVAL + PauseLength
        /\ OldEntry(p)[1].val.channelId = req[p].id.channelId
        /\ StoredState(req[p].key)[1].heartbeatCount = OldEntry(p)[1].val.heartbeatCount + 1

\* Two heartbeats are missed: the next one, 90 seconds after the last one,
\* finds nothing.
C13_WitnessTwoMissed ==
    \E p \in Procs :
        /\ BeatAfterExpiry(p)
        /\ SinceLastBeat(p) = 3 * HEARTBEAT_INTERVAL
        /\ loc[p].readAt = loc[p].now
        /\ loc[p].last = None
        /\ StoredState(req[p].key)[1].heartbeatCount = 1

\* The 961st heartbeat of a state, 30 seconds after the 960th.
C13_Witness ==
    \E p \in Procs :
        /\ BeatInWindow(p)
        /\ pre[p][1].watch[req[p].key][1].val.heartbeatCount = 960
        /\ WatchGet(req[p].key) # None
        /\ WatchGet(req[p].key)[1].heartbeatCount = 961
        /\ watch[req[p].key][1].exp > pre[p][1].watch[req[p].key][1].exp

\* The clock advances between the read and the write of a same-channel
\* heartbeat: the time-to-live counts from the write.
C13_WitnessDelayed ==
    \E p \in Procs :
        /\ BeatInWindow(p)
        /\ loc[p].readAt = loc[p].now
        /\ WrittenAt(watch[req[p].key]) = loc[p].now + HEARTBEAT_INTERVAL
        /\ watch[req[p].key][1].val.heartbeatCount = 3

\* An end_watch on a key that holds no WatchState when its read is served.
EndOfNothing(p) ==
    /\ pc[p] = "return"
    /\ req[p].kind = "end"
    /\ \/ pre[p][1].watch[req[p].key] = None
       \/ ExpiredAt(pre[p][1].watch[req[p].key], loc[p].readAt)

\* C14: serial requests, no failure: end_watch on a key without a stored
\* WatchState (never created, expired, or ended before) answers success,
\* settles nothing, and leaves every key of the store as it was.
C14_EndOfNothingIsNoOp ==
    \A p \in Procs :
        EndOfNothing(p) =>
            /\ loc[p].result = "ok"
            /\ loc[p].last = None
            /\ loc[p].settle = "none"
            /\ loc[p].session = None
            /\ watch = pre[p][1].watch
            /\ << sessions, stats, daily, channel >> = AggregatesOf(pre[p][1])

\* bob ends his only tab a second time.
C14_Witness ==
    \E p \in Procs :
        /\ EndOfNothing(p)
        /\ User(p) = "bob"
        /\ pre[p][1].watch[req[p].key] = None
        /\ Len(sessions["bob"]) = 1

\* end_watch on a key whose WatchState has expired.
C14_WitnessExpired ==
    \E p \in Procs :
        /\ EndOfNothing(p)
        /\ pre[p][1].watch[req[p].key] # None

\* The channel identity of a heartbeat is not the one of the WatchState.
IdentityDiffers(state, id) ==
    \/ state.channelId # id.channelId
    \/ state.channelName # id.channelName
    \/ state.sourceKey # id.sourceKey

\* C15: serial requests, no failure: a heartbeat that finds a WatchState of
\* another channel identity, be it only another sourceKey, settles the old
\* state with endTime = now and stores a fresh state with heartbeatCount 1;
\* only a heartbeat of the same identity increments heartbeatCount.
C15_IdentityChangeIsSwitch ==
    \A p \in Procs :
        (Answers(p, "hb") /\ loc[p].last # None) =>
            LET old == loc[p].last[1]
                w == StoredState(req[p].key)
                list == sessions[User(p)]
            IN  /\ w # None
                /\ IF IdentityDiffers(old, req[p].id)
                   THEN /\ w[1].heartbeatCount = 1
                        /\ w[1].startTime = loc[p].now
                        /\ w[1].sourceKey = req[p].id.sourceKey
                        /\ InBounds(old.heartbeatCount * 30) =>
                              /\ list # << >>
                              /\ list[1].gen = old.gen
                              /\ list[1].endTime = loc[p].now
                   ELSE /\ w[1].heartbeatCount = old.heartbeatCount + 1
                        /\ w[1].gen = old.gen

\* A store operation of handler p's settlement has failed.
SettleFailed(p) == loc[p].settle = "failed"

\* C16: serial requests, store operations may fail: a failure inside the
\* settlement is not propagated: the handler goes on to its own write or
\* delete, and unless that operation fails too, a heartbeat answers
\* success with a fresh WatchState (heartbeatCount 1) for the new channel
\* stored, and an end_watch answers success with the WatchState deleted.
C16_SettleFailureSwallowed ==
    \A p \in Procs :
        SettleFailed(p) =>
            /\ pc[p] \in {AfterSettle(p), "return"}
            /\ pc[p] = AfterSettle(p) => loc[p].result = "none"
            /\ (pc[p] = "return" /\ loc[p].result # "ok") => failLeft <= MaxFailures - 2
            /\ (pc[p] = "return" /\ loc[p].result = "ok") =>
                  LET k == req[p].key
                      w == StoredState(k)
                  IN  IF req[p].kind = "hb"
                      THEN /\ w # None
                           /\ w[1].channelId = req[p].id.channelId
                           /\ w[1].heartbeatCount = 1
                           /\ w[1].startTime = loc[p].now
                           /\ w[1].gen # loc[p].last[1].gen
                      ELSE watch[k] = None

\* A switching heartbeat whose settlement failed after the session list
\* was written.
C16_Witness ==
    \E p \in Procs :
        /\ SettleFailed(p)
        /\ Answers(p, "hb")
        /\ sessions # pre[p][1].sessions
        /\ stats = pre[p][1].stats

\* An end_watch whose settlement failed at its first read.
C16_WitnessEnd ==
    \E p \in Procs :
        /\ SettleFailed(p)
        /\ Answers(p, "end")
        /\ sessions = pre[p][1].sessions
        /\ pre[p][1].watch[req[p].key] # None

\* The read or the write of the WatchState has failed and the heartbeat is
\* about to answer 500.
BeatFailed(p) ==
    pc[p] = "return" /\ req[p].kind = "hb" /\ loc[p].result = "error"

\* C17: serial requests, store operations may fail: a heartbeat whose
\* read or write of the WatchState fails answers a processing failure and
\* leaves every WatchState as it was stored before the call; the key's
\* heartbeatCount stays the number of heartbeats that succeeded, so the
\* next heartbeat continues from it.
C17_FailedBeatKeepsState ==
    /\ \A p \in Procs :
          (pc[p] = "return" /\ req[p].kind = "hb") =>
             /\ loc[p].result \in {"ok", "error"}
             /\ loc[p].result = "error" => watch = pre[p][1].watch
             /\ loc[p].result = "ok" => watch[req[p].key] # pre[p][1].watch[req[p].key]
    /\ \A k \in Keys :
          (~Served(k) /\ run[k] # None /\ now < run[k][1].lastAt + 60) =>
             /\ WatchGet(k) # None
             /\ WatchGet(k)[1].channelId = run[k][1].channelId
             /\ WatchGet(k)[1].heartbeatCount = run[k][1].beats

\* The write of a same-channel heartbeat fails on a state of two heartbeats.
C17_Witness ==
    \E p \in Procs :
        /\ BeatFailed(p)
        /\ loc[p].last # None
        /\ loc[p].settle = "none"
        /\ watch[req[p].key] # None
        /\ watch[req[p].key][1].val.heartbeatCount = 2

\* The heartbeat after a failed request counts on from the stored state.
C17_WitnessNext ==
    \E p \in Procs :
        /\ Answers(p, "hb")
        /\ failLeft = 0
        /\ reqLeft = 0
        /\ pre[p][1].watch = TabsStore.watch
        /\ WatchGet(req[p].key)[1].heartbeatCount = TabBeats(req[p].key) + 1

\* The request of handler p lacks a field its route requires.
LacksField(p) ==
    \/ req[p].key[2] = ""
    \/ /\ req[p].kind = "hb"
       /\ "" \in {req[p].id.channelId, req[p].id.channelName, req[p].id.sourceKey}

\* C18: a heartbeat without sessionId, channelId, channelName or sourceKey,
\* and an end_watch without sessionId, is rejected before the store is
\* touched: no handler that reads or writes the store serves such a
\* request, no WatchState lacks one of the fields, and when the request is
\* answered nothing has been settled and every key is as it was.
C18_InvalidRejected ==
    /\ \A p \in Procs :
          pc[p] # "idle" => (LacksField(p) <=> pc[p] = "rejected")
    /\ \A p \in Procs :
          pc[p] = "rejected" =>
             /\ loc[p].result = "invalid"
             /\ loc[p].last = None
             /\ loc[p].settle = "none"
             /\ watch = pre[p][1].watch
             /\ << sessions, stats, daily, channel >> = AggregatesOf(pre[p][1])
    /\ \A k \in Keys :
          watch[k] # None =>
             "" \notin { watch[k][1].val.channelId, watch[k][1].val.channelName,
                         watch[k][1].val.sourceKey }

\* A heartbeat without a source key on a key that is watching c1.
C18_Witness ==
    \E p \in Procs :
        /\ pc[p] = "rejected"
        /\ req[p].kind = "hb"
        /\ req[p].id.sourceKey = ""
        /\ req[p].id.channelId = "c2"
        /\ WatchGet(req[p].key) # None
        /\ WatchGet(req[p].key)[1].channelId = "c1"

\* An end_watch without a sessionId.
C18_WitnessEnd ==
    \E p \in Procs :
        /\ pc[p] = "rejected"
        /\ req[p].kind = "end"
        /\ \E k \in Keys : k[1] = User(p) /\ WatchGet(k) # None

\* The value of an entry whatever its time-to-live.
ValueOf(entry) == IF entry = None THEN None ELSE Some(entry[1].val)

\* The report handler is about to answer with the cached report / with a
\* report it has computed.
AnswersCached == rpc = "respond" /\ rep.hit
AnswersComputed == rpc = "respond" /\ ~rep.hit

\* No aggregate has changed since the report was asked for.
QuietReport == << sessions, stats, daily, channel >> = rep.pre[1]

\* Users with a UserStats record or a session.
Watchers == { u \in Users : stats[u] # None \/ sessions[u] # << >> }

RECURSIVE SumOver(_, _)
SumOver(f, S) ==
    IF S = {} THEN 0
    ELSE LET x == CHOOSE y \in S : TRUE
         IN  f[x] + SumOver(f, S \ {x})

\* C19: a report asked for without refresh whose read of
\* live:global-stats is served while the report stored there is unexpired
\* answers that report and reads no aggregate, whatever has been settled
\* since; a report asked for with refresh, or finding no cached report, is
\* computed from the aggregates as they are and stored under
\* live:global-stats with 300 seconds to live from that write, which
\* falls between the report's new Date() and its answer.
C19_ReportCache ==
    /\ AnswersCached =>
          /\ ~rep.force
          /\ ValueOf(cache) = rep.result
          /\ ~ExpiredAt(cache, rep.readAt)
          /\ rep.userStats = << >> /\ rep.trend = << >> /\ rep.channels = << >>
    /\ (rpc \in {"user_stats", "user_sessions", "now", "daily", "today", "cache_set"}) =>
          rep.force \/ cache = None \/ ExpiredAt(cache, rep.readAt)
    /\ AnswersComputed =>
          /\ ValueOf(cache) = rep.result
          /\ rep.at + STATS_CACHE_TTL <= cache[1].exp
          /\ cache[1].exp <= now + STATS_CACHE_TTL
          /\ QuietReport =>
                /\ rep.result[1].totalUsers = Cardinality(Watchers)
                /\ rep.result[1].totalSessions =
                      SumOver([u \in Users |-> TotalSessions(u)], Users)
                /\ rep.result[1].totalWatchTime =
                      SumOver([u \in Users |-> TotalWatchTime(u)], Users)

\* The cached report of a store without sessions is answered after a
\* session has been settled.
C19_Witness ==
    /\ AnswersCached
    /\ rep.result[1].totalSessions = 0
    /\ TotalSessions("alice") = 1
    /\ Len(settled) = 1

\* The cached report has expired and a report is computed.
C19_WitnessLapsed ==
    /\ rpc = "cache_set"
    /\ ~rep.force
    /\ cache # None
    /\ rep.result[1].totalSessions = 2

\* A report with refresh is computed while the cached one is valid.
C19_WitnessForced ==
    /\ rpc = "cache_set"
    /\ rep.force
    /\ CacheGet(cache) # None
    /\ CacheGet(cache)[1].totalSessions = 0
    /\ rep.result[1].totalSessions = 2

\* A report computed before midnight counts alice's session from her
\* UserStats; her settlement resumes from that write after midnight and
\* books the session on the next day.
C19_WitnessHalfSettled ==
    /\ cache # None
    /\ cache[1].exp = StartTime + STATS_CACHE_TTL
    /\ cache[1].val.totalSessions = 2
    /\ cache[1].val.dailyTrend[7].sessions = 1
    /\ daily[DayOf(StartTime) + 1] # None

\* The dailyTrend of a computed report: seven days ending with the day of
\* the report, oldest first, zeros for a day without a DailyStats record.
TrendIsLastWeek(r) ==
    /\ Len(r.dailyTrend) = 7
    /\ \A j \in 1 .. 7 :
          /\ r.dailyTrend[j].date = DayOf(rep.at) - 7 + j
          /\ DailyGet(r.dailyTrend[j].date) = None =>
                /\ r.dailyTrend[j].watchTime = 0
                /\ r.dailyTrend[j].sessions = 0
                /\ r.dailyTrend[j].users = 0
          /\ (DailyGet(r.dailyTrend[j].date) # None /\ QuietReport) =>
                /\ r.dailyTrend[j].watchTime = DailyGet(r.dailyTrend[j].date)[1].watchTime
                /\ r.dailyTrend[j].sessions = DailyGet(r.dailyTrend[j].date)[1].sessions
                /\ r.dailyTrend[j].users = Len(DailyGet(r.dailyTrend[j].date)[1].users)

\* C20 as stated: every computed report has a dailyTrend of the last
\* seven days, and its todayActiveUsers is the users count of the last
\* entry of the trend.
C20_TrendAndToday ==
    AnswersComputed =>
        /\ TrendIsLastWeek(rep.result[1])
        /\ rep.result[1].todayActiveUsers = rep.result[1].dailyTrend[7].users

\* C20 as amended: the same, todayActiveUsers being the users count of
\* the last entry when no settlement has written the DailyStats of the
\* report's day while the report was computed.
C20_TrendAndTodayQuiet ==
    AnswersComputed =>
        /\ TrendIsLastWeek(rep.result[1])
        /\ daily[DayOf(rep.at)] = rep.pre[1][3][DayOf(rep.at)] =>
              rep.result[1].todayActiveUsers = rep.result[1].dailyTrend[7].users

\* A report computed after two users' sessions of the day were settled.
C20_Witness ==
    /\ AnswersComputed
    /\ QuietReport
    /\ rep.result[1].todayActiveUsers = 2
    /\ rep.result[1].dailyTrend[7].sessions = 2
    /\ rep.result[1].dailyTrend[6].sessions = 0

\* Midnight passes while the report reads the users: the trend ends with
\* the new day, which has no DailyStats record.
C20_WitnessMidnight ==
    /\ AnswersComputed
    /\ ~rep.force
    /\ DayOf(rep.readAt) = DayOf(StartTime)
    /\ rep.result[1].dailyTrend[7].date = DayOf(StartTime) + 1
    /\ rep.result[1].dailyTrend[6].users > 0
    /\ rep.result[1].todayActiveUsers = 0

\* The reads of the users are served before alice's session is stored,
\* the report resumes from the last of them after midnight: the trend
\* ends with the new day and has the session on the day before.
C20_WitnessResumed ==
    /\ AnswersComputed
    /\ rep.force
    /\ rep.result[1].totalSessions = 1
    /\ rep.result[1].dailyTrend[7].date = DayOf(StartTime) + 1
    /\ rep.result[1].dailyTrend[6].sessions = 2

\* The report handler is about to answer a report it has computed.
AnswersReport == rpc = "respond" /\ ~rep.hit /\ rep.error = "none"

\* The sessions of channel c in the lists of the users of S, their
\* durations added up, and the users of S that have one.
SessionsOfChannel(c, S) ==
    SumOver([u \in Users |-> Len(SessionsOn(sessions[u], c))], S)
WatchTimeOfChannel(c, S) ==
    SumOver([u \in Users |-> SumDuration(SessionsOn(sessions[u], c))], S)
WatchersOfChannel(c, S) == { u \in S : SessionsOn(sessions[u], c) # << >> }

\* C21: reports between requests, store operations of the report may
\* fail: a failed read of a user's UserStats or sessions never ends the
\* report; the user is in no entry of userStats and in no users set of the
\* per-channel accumulator, and the report that is answered and cached
\* counts the other users exactly as a report without failure does: their
\* userStats entries, the totals over them, and per channel the sessions,
\* watch time and users of their session lists.
C21_FailedUserSkipped ==
    /\ rep.error \notin UserOps
    /\ \A i \in DOMAIN rep.userStats : rep.userStats[i].username \notin rep.failed
    /\ \A i \in DOMAIN rep.channels : rep.channels[i].users \cap rep.failed = {}
    /\ AnswersReport =>
          LET r == rep.result[1]
              counted == Users \ rep.failed
          IN  /\ ValueOf(cache) = rep.result
              /\ rep.at + STATS_CACHE_TTL <= cache[1].exp
              /\ cache[1].exp <= now + STATS_CACHE_TTL
              /\ r.totalUsers = Cardinality(Watchers \ rep.failed)
              /\ { r.userStats[i].username : i \in DOMAIN r.userStats }
                    = Watchers \ rep.failed
              /\ \A i \in DOMAIN r.userStats :
                    LET u == r.userStats[i].username
                    IN  r.userStats[i] = UserStat(u, stats[u], sessions[u])
              /\ r.totalSessions = SumOver([u \in Users |-> TotalSessions(u)], counted)
              /\ r.totalWatchTime = SumOver([u \in Users |-> TotalWatchTime(u)], counted)
              /\ \A c \in ChannelIds :
                    IF SessionsOfChannel(c, counted) = 0
                    THEN \A i \in DOMAIN r.hotChannels : r.hotChannels[i].channelId # c
                    ELSE \E i \in DOMAIN r.hotChannels :
                            /\ r.hotChannels[i].channelId = c
                            /\ r.hotChannels[i].totalSessions = SessionsOfChannel(c, counted)
                            /\ r.hotChannels[i].totalWatchTime = WatchTimeOfChannel(c, counted)
                            /\ r.hotChannels[i].totalUsers =
                                  Cardinality(WatchersOfChannel(c, counted))

\* The read of alice's sessions fails; the report counts bob alone, who
\* has watched a channel alice has watched too.
C21_Witness ==
    /\ AnswersReport
    /\ rep.failed = {"alice"}
    /\ Watchers = {"alice", "bob"}
    /\ rep.result[1].totalUsers = 1
    /\ rep.result[1].userStats[1].username = "bob"
    /\ rep.result[1].totalSessions = 1
    /\ Len(rep.result[1].hotChannels) = 1
    /\ WatchersOfChannel("c1", Users) = {"alice", "bob"}

\* The read of the last user fails and the report goes on to the trend.
C21_WitnessLast ==
    /\ rpc = "now"
    /\ rep.failed = {"bob"}
    /\ Len(rep.userStats) = 1
    /\ stats["bob"] # None

\* A step of the report handler.
ReportActs ==
    rpc' # rpc \/ rep' # rep \/ cache' # cache \/ reportsLeft' # reportsLeft

\* C22: reports run while heartbeats and their settlements run: no step of
\* a report, cached or computed, changes a WatchState, a session list, a
\* UserStats, DailyStats or ChannelStats record or anything a request
\* handler holds; live:global-stats is written by the report's setCache
\* alone.
C22_ReporterReadOnly ==
    [][ /\ ReportActs =>
             /\ UNCHANGED << watch, sessions, stats, daily, channel >>
             /\ UNCHANGED << pc, req, loc >>
        /\ cache' # cache => rpc = "cache_set" /\ rpc' = "respond" ]_vars

\* A report has been computed while a switching heartbeat was settling:
\* the aggregates have changed since the report was asked for and the
\* settlement is not through.
C22_Witness ==
    /\ AnswersComputed
    /\ << sessions, stats, daily, channel >> # rep.pre[1]
    /\ \E p \in Procs : pc[p] \in SettleOps /\ req[p].kind = "hb"

\* The cached report is answered after a heartbeat has settled a session.
C22_WitnessCached ==
    /\ AnswersCached
    /\ << sessions, stats, daily, channel >> # rep.pre[1]
    /\ Len(settled) = 1

\* The j-th update of handler p's settlement is in the store as the
\* settlement writes it / is not in the store.
UpdateApplied(p, j) ==
    LET u == User(p)
        was == pre[p][1]
        s == loc[p].session[1]
        st == loc[p].last[1]
        day == loc[p].today
    IN  CASE j = 1 -> sessions[u] = PrependSession(was.sessions[u], s)
          [] j = 2 -> stats[u] = Some(AddUserStats(was.stats[u], s.duration, s.endTime))
          [] j = 3 -> /\ daily[day] # None
                      /\ daily[day][1].val =
                            AddDailyStats(ValueOf(was.daily[day]), s.duration, u)
          [] j = 4 -> channel[st.channelId] =
                        Some(AddChannelStats(was.channel[st.channelId], st, s.duration, u))

UpdateAbsent(p, j) ==
    CASE j = 1 -> sessions = pre[p][1].sessions
      [] j = 2 -> stats = pre[p][1].stats
      [] j = 3 -> daily = pre[p][1].daily
      [] j = 4 -> channel = pre[p][1].channel

\* The updates handler p's settlement has completed.
UpdatesDone(p) ==
    IF loc[p].settle = "applied" THEN 4
    ELSE IF loc[p].settle = "failed" THEN loc[p].failedStep - 1
    ELSE StepOf(pc[p]) - 1

\* C23: serial requests, store operations may fail: a settlement writes
\* session list, UserStats, DailyStats, ChannelStats in this order and ends
\* at the first store operation that fails: after a failure in update k the
\* updates 1 .. k-1 are in the store as written and the updates k .. 4 are
\* not, whatever the handler does next; at no time is a later update in
\* the store without the earlier ones.
C23_FailedSettlementIsPrefix ==
    \A p \in Procs :
        loc[p].session # None =>
            /\ SettleFailed(p) => loc[p].failedStep \in 1 .. 4
            /\ \A j \in 1 .. 4 :
                  IF j <= UpdatesDone(p)
                  THEN UpdateApplied(p, j) /\ ~UpdateAbsent(p, j)
                  ELSE UpdateAbsent(p, j)

\* The read of the DailyStats fails in a switching heartbeat: session list
\* and UserStats are written, DailyStats and ChannelStats are not.
C23_Witness ==
    \E p \in Procs :
        /\ SettleFailed(p)
        /\ loc[p].failedStep = 3
        /\ Answers(p, "hb")
        /\ Len(sessions[User(p)]) = 1
        /\ TotalSessions(User(p)) = 1
        /\ \A d \in Days : daily[d] = None
        /\ \A c \in ChannelIds : channel[c] = None

\* The write of the ChannelStats fails.
C23_WitnessLast ==
    \E p \in Procs :
        /\ SettleFailed(p)
        /\ loc[p].failedStep = 4
        /\ pc[p] = "return"
        /\ daily # pre[p][1].daily
        /\ channel = pre[p][1].channel

\* The sessions the request of handler p has put into the lists.
NewSessions(p) ==
    UNION { Range(sessions[u]) \ Range(pre[p][1].sessions[u]) : u \in Users }

\* C24: serial requests, no failure: while a heartbeat or an end_watch on
\* a key is handled and when it is answered, the WatchState entry of every
\* other key, those of the same user included, is the one stored before
\* the request, value and expiry time; a session the request records is
\* the settlement of the state its own key held, and the states of the
\* other keys are settled into nothing.
C24_TabsIndependent ==
    \A p \in Procs :
        pc[p] # "idle" =>
            LET k == req[p].key
                was == pre[p][1]
            IN  /\ \A other \in Keys \ {k} : watch[other] = was.watch[other]
                /\ NewSessions(p) # {} =>
                      /\ k \in Keys
                      /\ was.watch[k] # None
                      /\ \A s \in NewSessions(p) : s.gen = was.watch[k][1].val.gen
                /\ \A other \in Keys \ {k} :
                      (k \in Keys /\ was.watch[other] # None /\ was.watch[k] # None
                         /\ was.watch[other][1].val.gen # was.watch[k][1].val.gen) =>
                          \A s \in NewSessions(p) : s.gen # was.watch[other][1].val.gen

\* alice ends her first tab: its session is recorded and her second tab
\* and bob's tab hold their states.
C24_Witness ==
    \E p \in Procs :
        /\ Answers(p, "end")
        /\ req[p].key = << "alice", "t1" >>
        /\ NewSessions(p) # {}
        /\ watch[<< "alice", "t1" >>] = None
        /\ WatchGet(<< "alice", "t2" >>) # None
        /\ WatchGet(<< "bob", "t1" >>) # None

\* alice switches the channel in her second tab.
C24_WitnessSwitch ==
    \E p \in Procs :
        /\ Answers(p, "hb")
        /\ req[p].key = << "alice", "t2" >>
        /\ NewSessions(p) # {}
        /\ WatchGet(<< "alice", "t1" >>) # None
        /\ WatchGet(<< "alice", "t1" >>)[1].channelId = "c1"
        /\ WatchGet(<< "alice", "t2" >>)[1].channelId = "c2"

\* C25: serial requests, store operations may fail: an end_watch that
\* found a WatchState and answers success has removed it, whether the
\* settlement was applied, discarded by the duration filter or ended by a
\* store failure; a heartbeat that found a state of another channel and
\* answers success has stored a fresh state of the new channel
\* (heartbeatCount 1, startTime = lastHeartbeat = now), also when the old
\* state's settlement was discarded.
C25_StateReplacedWhateverSettlement ==
    \A p \in Procs :
        (pc[p] = "return" /\ loc[p].result = "ok" /\ Settles(p)) =>
            LET k == req[p].key
                w == StoredState(k)
            IN  /\ loc[p].settle \in {"applied", "dropped", "failed"}
                /\ loc[p].settle = "dropped" <=> Discarded(Duration(loc[p].last[1]))
                /\ IF req[p].kind = "end"
                   THEN watch[k] = None
                   ELSE /\ w # None
                        /\ w[1].channelId = req[p].id.channelId
                        /\ w[1].channelName = req[p].id.channelName
                        /\ w[1].heartbeatCount = 1
                        /\ w[1].startTime = loc[p].now
                        /\ w[1].lastHeartbeat = loc[p].now
                        /\ w[1].gen # loc[p].last[1].gen

\* end_watch on a state of 961 heartbeats: nothing is recorded and the
\* state is removed.
C25_Witness ==
    \E p \in Procs :
        /\ Answers(p, "end")
        /\ Settles(p)
        /\ loc[p].settle = "dropped"
        /\ loc[p].last[1].heartbeatCount * 30 > 28800
        /\ pre[p][1].watch[req[p].key] # None
        /\ watch[req[p].key] = None
        /\ sessions = pre[p][1].sessions

\* end_watch whose settlement fails.
C25_WitnessFailed ==
    \E p \in Procs :
        /\ Answers(p, "end")
        /\ SettleFailed(p)
        /\ pre[p][1].watch[req[p].key] # None
        /\ watch[req[p].key] = None

\* A switching heartbeat on a state of 961 heartbeats.
C25_WitnessSwitch ==
    \E p \in Procs :
        /\ Answers(p, "hb")
        /\ Settles(p)
        /\ loc[p].settle = "dropped"
        /\ loc[p].last[1].heartbeatCount = 961
        /\ WatchGet(req[p].key)[1].heartbeatCount = 1

ChannelWatchTime(c) == IF channel[c] = None THEN 0 ELSE channel[c][1].totalWatchTime
DailyWatchTime(d) == IF DailyGet(d) = None THEN 0 ELSE DailyGet(d)[1].watchTime
DailyCount(d) == IF DailyGet(d) = None THEN 0 ELSE DailyGet(d)[1].sessions

\* No DailyStats record has run out of its time-to-live.
NoDailyExpired == \A d \in Days : ~ExpiredAt(daily[d], now)

\* C26: serial requests, no failure: between requests, and while no
\* DailyStats record has expired, the sessions counted in UserStats over
\* all users, in ChannelStats over all channels and in DailyStats over all
\* days are the same number, and so are the three sums of watch time.
C26_CountersAgree ==
    (InFlight = {} /\ NoDailyExpired) =>
        LET byUser == SumOver([u \in Users |-> TotalSessions(u)], Users)
            byChannel == SumOver([c \in ChannelIds |-> ChannelSessions(c)], ChannelIds)
            byDay == SumOver([d \in Days |-> DailyCount(d)], Days)
            timeByUser == SumOver([u \in Users |-> TotalWatchTime(u)], Users)
            timeByChannel == SumOver([c \in ChannelIds |-> ChannelWatchTime(c)], ChannelIds)
            timeByDay == SumOver([d \in Days |-> DailyWatchTime(d)], Days)
        IN  /\ byUser = byChannel
            /\ byUser = byDay
            /\ timeByUser = timeByChannel
            /\ timeByUser = timeByDay

\* alice has ended 100 sessions of c1 and switched away from c2 once, the
\* last settlement written to the day after the others.
C26_Witness ==
    /\ InFlight = {}
    /\ NoDailyExpired
    /\ TotalSessions("alice") = 101
    /\ ChannelSessions("c1") = 100
    /\ ChannelSessions("c2") = 1
    /\ DailyCount(DayOf(StartTime)) = 100
    /\ DailyCount(DayOf(StartTime) + 1) = 1

\* Two users' sessions of different lengths on one channel and one day.
C26_WitnessUsers ==
    /\ InFlight = {}
    /\ TotalSessions("alice") = 1
    /\ TotalSessions("bob") = 1
    /\ TotalWatchTime("alice") # TotalWatchTime("bob")
    /\ ChannelSessions("c1") = 2
    /\ DailyCount(DayOf(StartTime)) = 2

NoDuplicates(list) == \A i, j \in DOMAIN list : i # j => list[i] # list[j]

\* The settlement of handler p has written the DailyStats of day d.
WroteDaily(p, d) ==
    /\ loc[p].session # None
    /\ pc[p] \in {"s_get_channel", "s_set_channel", "hb_set", "end_del", "return"}
    /\ loc[p].today = d

\* The users whose settlements have written the DailyStats of day d / the
\* ChannelStats of channel c.
DailyWriters(d) ==
    { settled[i].user : i \in { j \in DOMAIN settled : settled[j].day = d } }
        \cup { User(p) : p \in { q \in Procs : WroteDaily(q, d) } }
ChannelWriters(c) ==
    { settled[i].user : i \in { j \in DOMAIN settled : settled[j].channelId = c } }

\* C27: requests handled at once on a store without aggregates: in every
\* state the users list of each DailyStats record and of each ChannelStats
\* record names no user twice, and names only users of whom a settlement
\* has written that record.
C27_UsersListsAreSets ==
    /\ \A d \in Days :
          daily[d] # None =>
             /\ NoDuplicates(daily[d][1].val.users)
             /\ Range(daily[d][1].val.users) \subseteq DailyWriters(d)
    /\ \A c \in ChannelIds :
          channel[c] # None =>
             /\ NoDuplicates(channel[c][1].users)
             /\ Range(channel[c][1].users) \subseteq ChannelWriters(c)

\* alice's two tabs are settled at once, each settlement reading the
\* DailyStats the other has written: two sessions, alice named once.
C27_Witness ==
    /\ InFlight = {}
    /\ Len(settled) = 2
    /\ settled[1].user = "alice" /\ settled[2].user = "alice"
    /\ settled[1].gen # settled[2].gen
    /\ settled[1].day = settled[2].day
    /\ daily[settled[1].day][1].val.sessions = 2
    /\ daily[settled[1].day][1].val.users = << "alice" >>
    /\ channel["c1"][1].users = << "alice" >>

\* alice's and bob's settlements interleave and bob's write of the
\* ChannelStats is lost: the record names alice alone.
C27_WitnessLost ==
    /\ InFlight = {}
    /\ ChannelWriters("c1") = {"alice", "bob"}
    /\ channel["c1"][1].users = << "alice" >>
    /\ Len(daily[DayOf(StartTime)][1].val.users) = 2

====
